---- MODULE Spec2Model ----
(***************************************************************************)
(* KarmaChain security gateway (utils/security_hardening.py):              *)
(* SecurityManager (nonce registry, TTL check, replay cache, message       *)
(* signing, hash-chained audit log) and BucketCommunicator (store).        *)
(*                                                                         *)
(* Encodings used throughout:                                              *)
(*  - a message / audit entry is a function from field names to values;    *)
(*  - json.dumps(x, sort_keys=True, separators=(',',':')) is JsonDumps: a  *)
(*    uniquely decodable sequence of integers, fields in sorted key order; *)
(*  - sha256(...).hexdigest() and hmac(...).hexdigest() are collision-free *)
(*    (injective) functions of the serialised bytes;                       *)
(*  - time.time() / datetime.now(timezone.utc) is the integer clock now.   *)
(***************************************************************************)
EXTENDS Integers, Sequences, FiniteSets, TLC

VARIABLES
    now,              \* wall clock, seconds
    nonce_ctr,        \* number of nonces issued (source of fresh random bytes)
    nonce_store,      \* SecurityManager.nonce_store
    replay_cache,     \* SecurityManager.replay_cache
    audit_log,        \* SecurityManager.audit_log
    last_audit_hash,  \* SecurityManager.last_audit_hash
    bucket_store,     \* BucketCommunicator.bucket_store
    bucket_counter,   \* BucketCommunicator.bucket_counter
    lastOp,           \* the call that completed last, with its return value
    retrieved,        \* handles on which receive_from_bucket has run validation
    accepted,         \* submissions send_to_bucket accepted, with the time
    frac,             \* the clock below the second, in ticks of 1/TicksPerSecond s
    issued,           \* every nonce issued so far, with its instant of issue in ticks
    pc,               \* per caller: position inside send_to_bucket
    loc,              \* per caller: local variables of the running call
    retention,        \* SecurityManager.audit_retention
    appended,         \* number of entries log_security_event has appended so far
    auth              \* the authorization layer: its logger and the calls made

vars == <<now, frac, nonce_ctr, nonce_store, replay_cache, audit_log, last_audit_hash,
          bucket_store, bucket_counter, lastOp, retrieved, accepted, issued, pc, loc,
          retention, appended, auth>>

----------------------------------------------------------------------------
(* Bounds of the model *)

MaxAuditLen == 7      \* a call starts only while fewer entries were ever logged
MaxConcSends == 2     \* send_to_bucket calls started in the concurrent spec

TimePoints == {0, 1, 3601}
Callers == {1, 2}
TicksPerSecond == 2

----------------------------------------------------------------------------
(* Program constants *)

nonce_ttl == 300
replay_window == 3600
audit_retention == 1000
default_ttl_seconds == 300
security_version == 2          \* the tag '2.0'
secret_key == 7                \* the process secret
None == -1                     \* dict.get() of an absent key
GenesisEventId == -2           \* 'genesis_0000000000000000'
GenesisHash == <<-1>>          \* 'genesis_hash_0000000000000000', not a digest
NoHash == <<>>                 \* last_audit_hash = None

(* Values of the wrong type or shape, as a caller can put them in a field.  *)
(* A well-formed timestamp or ttl is an integer above these.               *)
TsNotString == -9001           \* timestamp that is not a str (12345, None)
TsUnparseable == -9002         \* 'garbage': fromisoformat raises ValueError
TsNoOffset == -9003            \* '2026-01-01T00:00:00': naive datetime
TtlNotNumber == -9004          \* ttl that is not a number ('300', None)
NonceUnhashable == -9006       \* truthy nonce that cannot be a dict key (['x'])
SigNotString == <<-9005>>      \* truthy signature that is not a str (123)

----------------------------------------------------------------------------
(* Mappings (dict) *)

EmptyMap == [f \in {} |-> 0]
Put(m, k, v) == [f \in (DOMAIN m) \cup {k} |-> IF f = k THEN v ELSE m[f]]
Remove(m, K) == [f \in (DOMAIN m) \ K |-> m[f]]
Get(m, k) == IF k \in DOMAIN m THEN m[k] ELSE None

(* Canonical JSON.  Keys in ascending order; a value is an integer, a      *)
(* string standing for an event type, or a sequence (length-prefixed).     *)
MessageKeys == <<"nonce", "security_version", "signal_id", "signature",
                 "subject_id", "timestamp", "ttl">>
AuditKeys == <<"details", "entry_hash", "event_id", "event_type",
               "previous_hash", "timestamp">>
SeqFields == {"signature", "details", "entry_hash", "previous_hash"}

EventTypes == <<"chain_initialization", "signal_created", "signal_validated",
                "bucket_send_failed", "bucket_send_success", "bucket_not_found",
                "bucket_receive_violation", "bucket_receive_success">>
EventCode(e) == CHOOSE i \in 1..Len(EventTypes) : EventTypes[i] = e

ErrNonce == "Invalid or expired nonce"
ErrTTL == "Message expired (TTL violation)"
ErrReplay == "Replay attack detected"
ErrSignature == "Invalid signature"
ErrMissingSignature == "Missing signature"
ErrorStrings == <<ErrNonce, ErrTTL, ErrReplay, ErrSignature, ErrMissingSignature>>
ErrCode(e) == CHOOSE i \in 1..Len(ErrorStrings) : ErrorStrings[i] = e
ErrCodes(errors) == [i \in 1..Len(errors) |-> ErrCode(errors[i])]

EncVal(k, v) ==
    IF k \in SeqFields THEN <<Len(v)>> \o v
    ELSE IF k = "event_type" THEN <<EventCode(v)>>
    ELSE <<v>>

RECURSIVE JsonFrom(_, _, _)
JsonFrom(m, keys, i) ==
    IF i > Len(keys) THEN <<>>
    ELSE (IF keys[i] \in DOMAIN m THEN <<i>> \o EncVal(keys[i], m[keys[i]]) ELSE <<>>)
         \o JsonFrom(m, keys, i + 1)

JsonDumps(m, keys) == JsonFrom(m, keys, 1)

Sha256(bytes) == <<Len(bytes)>> \o bytes
HmacSha256(key, bytes) == <<key, Len(bytes)>> \o bytes

----------------------------------------------------------------------------
(* SecurityManager.  Every operator takes the manager state s (a record of *)
(* its fields) and the clock t, and returns the new state with the result. *)

SM == [nonce_ctr |-> nonce_ctr, nonce_store |-> nonce_store,
       replay_cache |-> replay_cache, audit_log |-> audit_log,
       last_audit_hash |-> last_audit_hash, audit_retention |-> retention,
       appended |-> appended]

genesis_entry(t) ==
    [event_id |-> GenesisEventId, timestamp |-> t,
     event_type |-> "chain_initialization", details |-> <<0>>,
     entry_hash |-> GenesisHash]

SubSeqFrom(s, n) == SubSeq(s, Len(s) - n + 1, Len(s))    \* s[-n:]

(* lines 255-269: the entry, linked to the last hash read, and its hash *)

(* variant: the hash is taken before the link is added *)
new_audit_entry_early(last_hash, t, event_type, details) ==
    LET e0 == [event_id |-> t, timestamp |-> t,
               event_type |-> event_type, details |-> details]
        e1 == IF last_hash # NoHash THEN Put(e0, "previous_hash", last_hash) ELSE e0
    IN  Put(e1, "entry_hash", Sha256(JsonDumps(e0, AuditKeys)))

new_audit_entry(last_hash, t, event_type, details) ==
    LET e0 == [event_id |-> t, timestamp |-> t,
               event_type |-> event_type, details |-> details]
        e1 == IF last_hash # NoHash THEN Put(e0, "previous_hash", last_hash) ELSE e0
    IN  Put(e1, "entry_hash", Sha256(JsonDumps(e1, AuditKeys)))

(* lines 275-280: append and trim *)

(* variant: the trim starts one entry early *)
append_and_trim_short(log, entry, cap) ==
    LET l1 == Append(log, entry)
    IN  IF Len(l1) >= cap THEN SubSeqFrom(l1, cap - 1) ELSE l1

(* variant: the trim keeps the oldest entries *)
append_and_trim_head(log, entry, cap) ==
    LET l1 == Append(log, entry)
    IN  IF Len(l1) > cap THEN SubSeq(l1, 1, cap) ELSE l1

append_and_trim(log, entry, cap) ==
    LET l1 == Append(log, entry)
    IN  IF Len(l1) > cap THEN SubSeqFrom(l1, cap) ELSE l1

(* lines 252-282 *)

(* variant: the last hash is not advanced *)
log_security_event_stale(s, t, event_type, details) ==
    LET entry == new_audit_entry(s.last_audit_hash, t, event_type, details)
    IN  [s EXCEPT !.audit_log = append_and_trim(s.audit_log, entry, s.audit_retention),
                  !.appended = @ + 1]

log_security_event(s, t, event_type, details) ==
    LET entry == new_audit_entry(s.last_audit_hash, t, event_type, details)
    IN  [s EXCEPT !.last_audit_hash = entry["entry_hash"],
                  !.audit_log = append_and_trim(s.audit_log, entry, s.audit_retention),
                  !.appended = @ + 1]

generate_secure_nonce(s, t) ==
    LET nonce == s.nonce_ctr + 1
    IN  [s |-> [s EXCEPT !.nonce_ctr = nonce,
                         !.nonce_store = Put(s.nonce_store, nonce,
                                             [timestamp |-> t, created_at |-> t])],
         nonce |-> nonce]

(* variant: a nonce is consumed by its first successful validation *)
validate_nonce_consume(s, t, nonce) ==
    IF nonce \notin DOMAIN s.nonce_store THEN [s |-> s, ok |-> FALSE]
    ELSE IF t - s.nonce_store[nonce].timestamp > nonce_ttl
         THEN [s |-> [s EXCEPT !.nonce_store = Remove(s.nonce_store, {nonce})],
               ok |-> FALSE]
         ELSE [s |-> [s EXCEPT !.nonce_store = Remove(s.nonce_store, {nonce})],
               ok |-> TRUE]

validate_nonce(s, t, nonce) ==
    IF nonce \notin DOMAIN s.nonce_store THEN [s |-> s, ok |-> FALSE]
    ELSE IF t - s.nonce_store[nonce].timestamp > nonce_ttl
         THEN [s |-> [s EXCEPT !.nonce_store = Remove(s.nonce_store, {nonce})],
               ok |-> FALSE]
         ELSE [s |-> s, ok |-> TRUE]

(* lines 91-107: "true" / "false", or the exception that leaves the call.  *)
(* timestamp.endswith on a non-str raises AttributeError, which the except *)
(* clause (ValueError, TypeError) does not catch; an unparseable string is *)
(* a ValueError, a naive datetime or a non-numeric ttl a TypeError.        *)

(* variant: the upper end of the interval is open *)
ttl_outcome_open(t, timestamp, ttl_seconds) ==
    IF timestamp = TsNotString THEN "AttributeError"
    ELSE IF timestamp \in {TsUnparseable, TsNoOffset} THEN "false"
    ELSE LET time_diff == t - timestamp
         IN  IF 0 <= time_diff /\ ttl_seconds # TtlNotNumber /\ time_diff < ttl_seconds
             THEN "true" ELSE "false"

ttl_outcome(t, timestamp, ttl_seconds) ==
    IF timestamp = TsNotString THEN "AttributeError"
    ELSE IF timestamp \in {TsUnparseable, TsNoOffset} THEN "false"
    ELSE LET time_diff == t - timestamp
         IN  IF 0 <= time_diff /\ ttl_seconds # TtlNotNumber /\ time_diff <= ttl_seconds
             THEN "true" ELSE "false"

is_valid_ttl(t, timestamp, ttl_seconds) == ttl_outcome(t, timestamp, ttl_seconds) = "true"

(* variant: ttl is dropped from the fingerprint as well *)
volatile_fields_ttl == {"timestamp", "nonce", "signature", "ttl"}

volatile_fields == {"timestamp", "nonce", "signature"}
message_hash(message) == Sha256(JsonDumps(Remove(message, volatile_fields), MessageKeys))

(* lines 127-133: the cache without its expired entries *)

(* variant: an entry aged exactly replay_window is purged as well *)
purge_expired_closed(cache, t) ==
    LET expired_keys == {k \in DOMAIN cache : t - cache[k][1] >= replay_window}
    IN  Remove(cache, expired_keys)

purge_expired(cache, t) ==
    LET expired_keys == {k \in DOMAIN cache : t - cache[k][1] > replay_window}
    IN  Remove(cache, expired_keys)

(* line 154: message.get('signal_id', 'unknown') *)
UnknownSignalId == -3
cached_signal_id(message) ==
    IF "signal_id" \in DOMAIN message THEN message["signal_id"] ELSE UnknownSignalId

(* lines 109-155: purge, look the fingerprint up, insert it on a miss.  On *)
(* a hit both branches of the 10-second test return True.                  *)

(* variant: the fingerprint keeps the volatile fields *)
detect_replay_attack_volatile(s, t, message) ==
    LET h == Sha256(JsonDumps(message, MessageKeys))
        cache == purge_expired(s.replay_cache, t)
    IN  IF h \in DOMAIN cache
        THEN [s |-> [s EXCEPT !.replay_cache = cache], replay |-> TRUE]
        ELSE [s |-> [s EXCEPT !.replay_cache =
                         Put(cache, h, <<t, cached_signal_id(message)>>)],
              replay |-> FALSE]

(* variant: a repeat of the same signal_id within 10 seconds is let through *)
detect_replay_attack_grace(s, t, message) ==
    LET h == message_hash(message)
        cache == purge_expired(s.replay_cache, t)
    IN  IF h \in DOMAIN cache
        THEN [s |-> [s EXCEPT !.replay_cache = cache],
              replay |-> ~(Get(message, "signal_id") = cache[h][2] /\ t - cache[h][1] < 10)]
        ELSE [s |-> [s EXCEPT !.replay_cache =
                         Put(cache, h, <<t, cached_signal_id(message)>>)],
              replay |-> FALSE]

(* variant: a hit counts only for the signal_id that was cached *)
detect_replay_attack_lenient(s, t, message) ==
    LET h == message_hash(message)
        cache == purge_expired(s.replay_cache, t)
    IN  IF h \in DOMAIN cache
        THEN [s |-> [s EXCEPT !.replay_cache = cache],
              replay |-> Get(message, "signal_id") = cache[h][2]]
        ELSE [s |-> [s EXCEPT !.replay_cache =
                         Put(cache, h, <<t, cached_signal_id(message)>>)],
              replay |-> FALSE]

(* variant: a hit refreshes the time of the entry *)
detect_replay_attack_refresh(s, t, message) ==
    LET h == message_hash(message)
        cache == purge_expired(s.replay_cache, t)
    IN  IF h \in DOMAIN cache
        THEN [s |-> [s EXCEPT !.replay_cache = Put(cache, h, <<t, cache[h][2]>>)],
              replay |-> TRUE]
        ELSE [s |-> [s EXCEPT !.replay_cache =
                         Put(cache, h, <<t, cached_signal_id(message)>>)],
              replay |-> FALSE]

(* variant: a miss is not recorded *)
detect_replay_attack_peek(s, t, message) ==
    LET h == message_hash(message)
        cache == purge_expired(s.replay_cache, t)
    IN  IF h \in DOMAIN cache
        THEN [s |-> [s EXCEPT !.replay_cache = cache], replay |-> TRUE]
        ELSE [s |-> [s EXCEPT !.replay_cache = cache], replay |-> FALSE]

detect_replay_attack(s, t, message) ==
    LET h == message_hash(message)
        cache == purge_expired(s.replay_cache, t)
    IN  IF h \in DOMAIN cache
        THEN [s |-> [s EXCEPT !.replay_cache = cache],
              replay |-> IF Get(message, "signal_id") = cache[h][2] /\ t - cache[h][1] < 10
                         THEN TRUE ELSE TRUE]
        ELSE [s |-> [s EXCEPT !.replay_cache =
                         Put(cache, h, <<t, cached_signal_id(message)>>)],
              replay |-> FALSE]

sign_message(message) == HmacSha256(secret_key, JsonDumps(message, MessageKeys))
verify_signature(message, signature) == sign_message(message) = signature

(* variant: a ttl or nonce the input already carries is kept *)
create_secure_karma_signal_keep(s, t, signal_data, ttl_seconds) ==
    LET g == generate_secure_nonce(s, t)
        m1 == IF "nonce" \notin DOMAIN signal_data
              THEN Put(signal_data, "nonce", g.nonce) ELSE signal_data
        m2 == IF "timestamp" \notin DOMAIN m1 THEN Put(m1, "timestamp", t) ELSE m1
        m3 == IF "ttl" \notin DOMAIN m2 THEN Put(m2, "ttl", ttl_seconds) ELSE m2
        m4 == Put(m3, "security_version", security_version)
        m5 == Put(m4, "signature", sign_message(m4))
    IN  [s |-> log_security_event(g.s, t, "signal_created",
                   <<Get(m5, "signal_id"), Get(m5, "subject_id"), m5["nonce"] % 8>>),
         signal |-> m5]

(* variant: the secured message is entered in the replay cache at once *)
create_secure_karma_signal_checked(s, t, signal_data, ttl_seconds) ==
    LET g == generate_secure_nonce(s, t)
        m1 == Put(signal_data, "nonce", g.nonce)
        m2 == IF "timestamp" \notin DOMAIN m1 THEN Put(m1, "timestamp", t) ELSE m1
        m3 == Put(m2, "ttl", ttl_seconds)
        m4 == Put(m3, "security_version", security_version)
        m5 == Put(m4, "signature", sign_message(m4))
    IN  [s |-> log_security_event(detect_replay_attack(g.s, t, m5).s, t, "signal_created",
                   <<Get(m5, "signal_id"), Get(m5, "subject_id"), m5["nonce"] % 8>>),
         signal |-> m5]

create_secure_karma_signal(s, t, signal_data, ttl_seconds) ==
    LET g == generate_secure_nonce(s, t)
        m1 == Put(signal_data, "nonce", g.nonce)
        m2 == IF "timestamp" \notin DOMAIN m1 THEN Put(m1, "timestamp", t) ELSE m1
        m3 == Put(m2, "ttl", ttl_seconds)
        m4 == Put(m3, "security_version", security_version)
        m5 == Put(m4, "signature", sign_message(m4))
    IN  [s |-> log_security_event(g.s, t, "signal_created",
                   <<Get(m5, "signal_id"), Get(m5, "subject_id"), m5["nonce"] % 8>>),
         signal |-> m5]

required_fields == <<"nonce", "timestamp", "ttl", "signature", "security_version">>

(* errors[:3] *)
FirstThree(errors) == SubSeq(errors, 1, IF Len(errors) < 3 THEN Len(errors) ELSE 3)

(* lines 219-238: the four checks, errors accumulated in order.  raised is *)
(* the exception that leaves the call, with the state written up to it:    *)
(* an unhashable nonce at line 74, a timestamp that is not a str at line   *)
(* 93, a signature that is not a str in hmac.compare_digest at line 174.   *)
run_checks(s, t, m) ==
    LET n == validate_nonce(s, t, m["nonce"])
        r == detect_replay_attack(n.s, t, m)
        signal_copy == Remove(m, {"signature"})
        errors ==
            (IF n.ok THEN <<>> ELSE <<ErrNonce>>)
            \o (IF is_valid_ttl(t, m["timestamp"], m["ttl"]) THEN <<>> ELSE <<ErrTTL>>)
            \o (IF r.replay THEN <<ErrReplay>> ELSE <<>>)
            \o (IF m["signature"] = <<>> THEN <<ErrMissingSignature>>
                ELSE IF verify_signature(signal_copy, m["signature"]) THEN <<>>
                ELSE <<ErrSignature>>)
    IN  IF m["nonce"] = NonceUnhashable
        THEN [s |-> s, errors |-> <<>>, raised |-> "TypeError"]
        ELSE IF ttl_outcome(t, m["timestamp"], m["ttl"]) = "AttributeError"
        THEN [s |-> n.s, errors |-> <<>>, raised |-> "AttributeError"]
        ELSE IF m["signature"] = SigNotString
        THEN [s |-> r.s, errors |-> <<>>, raised |-> "TypeError"]
        ELSE [s |-> r.s, errors |-> errors, raised |-> ""]

(* lines 240-250: the decision is logged and returned, unless a check raised *)
validation_result(c, t, m) ==
    IF c.raised # ""
    THEN [s |-> c.s, valid |-> FALSE, raised |-> c.raised, errors |-> <<>>]
    ELSE [s |-> log_security_event(c.s, t, "signal_validated",
                    <<Get(m, "signal_id"), IF Len(c.errors) = 0 THEN 1 ELSE 0,
                      Len(c.errors)>> \o ErrCodes(FirstThree(c.errors))),
          valid |-> Len(c.errors) = 0, raised |-> "", errors |-> c.errors]

(* lines 211-217: the field-missing errors, in the order of required_fields *)
missing_field_errors(m) ==
    LET missing == SelectSeq(required_fields, LAMBDA f : f \notin DOMAIN m)
    IN  [i \in 1..Len(missing) |-> "Missing required field: " \o missing[i]]

(* variant: the replay check runs before the required fields are looked at *)
validate_secure_karma_signal_late(s, t, m) ==
    IF Len(missing_field_errors(m)) > 0
    THEN [s |-> detect_replay_attack(s, t, m).s, valid |-> FALSE, raised |-> "",
          errors |-> missing_field_errors(m)]
    ELSE validation_result(run_checks(s, t, m), t, m)

validate_secure_karma_signal(s, t, m) ==
    IF Len(missing_field_errors(m)) > 0
    THEN [s |-> s, valid |-> FALSE, raised |-> "", errors |-> missing_field_errors(m)]
    ELSE validation_result(run_checks(s, t, m), t, m)

(* variant: the link is checked against the stored entry_hash of the previous entry *)
verify_audit_chain_stored(log) ==
    IF Len(log) <= 1 THEN TRUE
    ELSE \A i \in 2..Len(log) :
            LET current_entry == log[i]
                entry_copy == Remove(current_entry, {"entry_hash"})
            IN  /\ (IF "previous_hash" \in DOMAIN current_entry
                    THEN current_entry["previous_hash"] ELSE NoHash) = log[i - 1]["entry_hash"]
                /\ current_entry["entry_hash"] = Sha256(JsonDumps(entry_copy, AuditKeys))

(* lines 288-316 *)
verify_audit_chain(log) ==
    IF Len(log) <= 1 THEN TRUE
    ELSE \A i \in 2..Len(log) :
            LET current_entry == log[i]
                previous_entry == log[i - 1]
                expected_previous_hash == Sha256(JsonDumps(previous_entry, AuditKeys))
                entry_copy == Remove(current_entry, {"entry_hash"})
            IN  /\ (IF "previous_hash" \in DOMAIN current_entry
                    THEN current_entry["previous_hash"] ELSE NoHash) = expected_previous_hash
                /\ ("entry_hash" \in DOMAIN current_entry /\ current_entry["entry_hash"] # <<>>)
                      => current_entry["entry_hash"] = Sha256(JsonDumps(entry_copy, AuditKeys))

(* a Python slice s[start:] *)
SliceFrom(s, start) ==
    LET first == IF start < 0 THEN (IF Len(s) + start < 0 THEN 0 ELSE Len(s) + start)
                 ELSE (IF start > Len(s) THEN Len(s) ELSE start)
    IN  SubSeq(s, first + 1, Len(s))

(* lines 284-286 *)
get_audit_trail(log, limit) ==
    IF Len(log) > limit THEN SliceFrom(log, 0 - limit) ELSE log

----------------------------------------------------------------------------
(* BucketCommunicator.  b is the record of its fields. *)

BC == [bucket_store |-> bucket_store, bucket_counter |-> bucket_counter]

BucketId(n) == <<"bucket", n>>          \* f"bucket_{n}"

(* variant: the counter is not incremented *)
store_in_bucket_same(b, secured_signal) ==
    [b |-> [bucket_counter |-> b.bucket_counter,
            bucket_store |-> Put(b.bucket_store, BucketId(b.bucket_counter), secured_signal)],
     bucket_id |-> BucketId(b.bucket_counter)]

(* lines 356-359 *)
store_in_bucket(b, secured_signal) ==
    LET counter == b.bucket_counter + 1
        bucket_id == BucketId(counter)
    IN  [b |-> [bucket_counter |-> counter,
                bucket_store |-> Put(b.bucket_store, bucket_id, secured_signal)],
         bucket_id |-> bucket_id]

NoResult == [success |-> FALSE, found |-> FALSE, bucket_id |-> BucketId(0),
             errors |-> <<>>, result |-> EmptyMap, raised |-> ""]

(* variant: a rejection is returned without its audit event *)
send_to_bucket_quiet(s, b, t, signal_data) ==
    LET c == create_secure_karma_signal(s, t, signal_data, default_ttl_seconds)
        v == validate_secure_karma_signal(c.s, t, c.signal)
    IN  IF ~v.valid
        THEN [s |-> v.s,
              b |-> b,
              ret |-> [NoResult EXCEPT !.errors = v.errors]]
        ELSE LET st == store_in_bucket(b, c.signal)
             IN  [s |-> log_security_event(v.s, t, "bucket_send_success",
                            <<st.bucket_id[2], Get(signal_data, "signal_id"),
                              Get(signal_data, "subject_id")>>),
                  b |-> st.b,
                  ret |-> [NoResult EXCEPT !.success = TRUE, !.bucket_id = st.bucket_id,
                                           !.result = c.signal]]

(* variant: the signal is stored before it is validated *)
send_to_bucket_early(s, b, t, signal_data) ==
    LET c == create_secure_karma_signal(s, t, signal_data, default_ttl_seconds)
        v == validate_secure_karma_signal(c.s, t, c.signal)
        st == store_in_bucket(b, c.signal)
    IN  IF ~v.valid
        THEN [s |-> log_security_event(v.s, t, "bucket_send_failed",
                        <<Get(signal_data, "signal_id")>> \o ErrCodes(v.errors)),
              b |-> st.b,
              ret |-> [NoResult EXCEPT !.errors = v.errors]]
        ELSE [s |-> log_security_event(v.s, t, "bucket_send_success",
                        <<st.bucket_id[2], Get(signal_data, "signal_id"),
                          Get(signal_data, "subject_id")>>),
              b |-> st.b,
              ret |-> [NoResult EXCEPT !.success = TRUE, !.bucket_id = st.bucket_id,
                                       !.result = c.signal]]

send_to_bucket(s, b, t, signal_data) ==
    LET c == create_secure_karma_signal(s, t, signal_data, default_ttl_seconds)
        v == validate_secure_karma_signal(c.s, t, c.signal)
    IN  IF ~v.valid
        THEN [s |-> log_security_event(v.s, t, "bucket_send_failed",
                        <<Get(signal_data, "signal_id")>> \o ErrCodes(v.errors)),
              b |-> b,
              ret |-> [NoResult EXCEPT !.errors = v.errors]]
        ELSE LET st == store_in_bucket(b, c.signal)
             IN  [s |-> log_security_event(v.s, t, "bucket_send_success",
                            <<st.bucket_id[2], Get(signal_data, "signal_id"),
                              Get(signal_data, "subject_id")>>),
                  b |-> st.b,
                  ret |-> [NoResult EXCEPT !.success = TRUE, !.bucket_id = st.bucket_id,
                                           !.result = c.signal]]

(* variant: a signal that fails validation is dropped from the store *)
receive_from_bucket_drop(s, b, t, bucket_id) ==
    IF bucket_id \notin DOMAIN b.bucket_store
    THEN [s |-> log_security_event(s, t, "bucket_not_found", <<bucket_id[2]>>),
          b |-> b, ret |-> [NoResult EXCEPT !.bucket_id = bucket_id]]
    ELSE LET signal_data == b.bucket_store[bucket_id]
             v == validate_secure_karma_signal(s, t, signal_data)
         IN  IF ~v.valid
             THEN [s |-> log_security_event(v.s, t, "bucket_receive_violation",
                             <<bucket_id[2], Get(signal_data, "signal_id")>>
                                \o ErrCodes(v.errors)),
                   b |-> [b EXCEPT !.bucket_store = Remove(@, {bucket_id})],
                   ret |-> [NoResult EXCEPT !.bucket_id = bucket_id, !.errors = v.errors]]
             ELSE [s |-> log_security_event(v.s, t, "bucket_receive_success",
                             <<bucket_id[2], Get(signal_data, "signal_id"),
                               Get(signal_data, "subject_id")>>),
                   b |-> b,
                   ret |-> [NoResult EXCEPT !.bucket_id = bucket_id, !.found = TRUE,
                                            !.result = signal_data]]

receive_from_bucket(s, b, t, bucket_id) ==
    IF bucket_id \notin DOMAIN b.bucket_store
    THEN [s |-> log_security_event(s, t, "bucket_not_found", <<bucket_id[2]>>),
          b |-> b, ret |-> [NoResult EXCEPT !.bucket_id = bucket_id]]
    ELSE LET signal_data == b.bucket_store[bucket_id]
             v == validate_secure_karma_signal(s, t, signal_data)
         IN  IF ~v.valid
             THEN [s |-> log_security_event(v.s, t, "bucket_receive_violation",
                             <<bucket_id[2], Get(signal_data, "signal_id")>>
                                \o ErrCodes(v.errors)),
                   b |-> b,
                   ret |-> [NoResult EXCEPT !.bucket_id = bucket_id, !.errors = v.errors]]
             ELSE [s |-> log_security_event(v.s, t, "bucket_receive_success",
                             <<bucket_id[2], Get(signal_data, "signal_id"),
                               Get(signal_data, "subject_id")>>),
                   b |-> b,
                   ret |-> [NoResult EXCEPT !.bucket_id = bucket_id, !.found = TRUE,
                                            !.result = signal_data]]

----------------------------------------------------------------------------
(* Core authorization gate (utils/core_authorization.py) and its logger    *)
(* (utils/authorization_logging.py).  The state of the layer is the record *)
(* auth: the logger's audit_log, the number of requests logged (the event  *)
(* id req_<time of the request> is the number of the request) and the      *)
(* number of times an action_func has been invoked.                        *)

AuthInit == [audit_log |-> <<>>, requests |-> 0, action_calls |-> 0]

auth_entry(event_type, event_id, subject_id, action_type, status, reason) ==
    [event_type |-> event_type, event_id |-> event_id, subject_id |-> subject_id,
     action_type |-> action_type, status |-> status, reason |-> reason]

log_authorization_request(log, event_id, subject_id, action_type) ==
    Append(log, auth_entry("authorization_request", event_id, subject_id, action_type,
                           "pending", ""))

log_core_ack(log, event_id, subject_id, action_type) ==
    Append(log, auth_entry("core_ack", event_id, subject_id, action_type, "authorized", ""))

log_audit_discard(log, event_id, subject_id, action_type, reason) ==
    Append(log, auth_entry("audit_log", event_id, subject_id, action_type,
                           "discarded", reason))

(* variant: a DENY leaves no discard record *)
log_core_deny_silent(log, event_id, subject_id, action_type) ==
    Append(log, auth_entry("core_deny", event_id, subject_id, action_type, "denied", ""))

log_core_deny(log, event_id, subject_id, action_type) ==
    log_audit_discard(
        Append(log, auth_entry("core_deny", event_id, subject_id, action_type, "denied", "")),
        event_id, subject_id, action_type, "Core DENY")

log_core_timeout(log, event_id, subject_id, action_type) ==
    log_audit_discard(
        Append(log, auth_entry("core_timeout", event_id, subject_id, action_type,
                               "timeout", "")),
        event_id, subject_id, action_type, "Core TIMEOUT")

log_action_execution(log, event_id, subject_id, action_type) ==
    Append(log, auth_entry("action_execution", event_id, subject_id, action_type,
                           "executed", ""))

(* KarmaSignal._validate_fields; severity is given in tenths *)
valid_contexts == {"assistant", "game", "finance", "gurukul", "infra", "workflow"}
valid_signals == {"allow", "nudge", "restrict", "escalate"}

get_signal_for_action(action_type) ==
    CASE action_type = "death_event" -> "escalate"
      [] action_type = "rebirth" -> "allow"
      [] action_type \in {"access_gating", "progression_lock", "restriction"} -> "restrict"
      [] OTHER -> "nudge"

validate_fields(subject_id, product_context, signal, severity, ttl, opaque_reason_code) ==
    /\ subject_id # ""
    /\ product_context \in valid_contexts
    /\ signal \in valid_signals
    /\ severity >= 0 /\ severity <= 10
    /\ ttl >= 1
    /\ opaque_reason_code # ""

(* the parameters emit_canonical_karma_signal declares, and the keywords   *)
(* authorize_irreversible_action passes to it: a keyword that is no        *)
(* parameter makes the call raise TypeError before the body runs           *)
emit_parameters ==
    {"subject_id", "product_context", "signal", "severity", "ttl", "opaque_reason_code"}
emit_keywords ==
    {"subject_id", "product_context", "signal", "severity", "opaque_reason_code", "ttl",
     "requires_core_ack"}

NoAuthResult == [status |-> "", action_executed |-> FALSE]

(* lines 108-159: the wait for the Core response core ("ack", "deny" or    *)
(* "silent": no authorization_response before the timeout); action_func is *)
(* "none", "ok" or "raises"                                                *)
await_core(a, event_id, subject_id, action_type, core, action_func) ==
    IF core = "ack"
    THEN LET acked == log_core_ack(a.audit_log, event_id, subject_id, action_type)
         IN  IF action_func = "none"
             THEN [a |-> [a EXCEPT !.audit_log = acked], raised |-> "",
                   result |-> [status |-> "allowed", action_executed |-> FALSE]]
             ELSE IF action_func = "ok"
             THEN [a |-> [a EXCEPT !.audit_log = log_action_execution(acked, event_id,
                                                     subject_id, action_type),
                                   !.action_calls = @ + 1],
                   raised |-> "",
                   result |-> [status |-> "allowed", action_executed |-> TRUE]]
             ELSE [a |-> [a EXCEPT !.audit_log = acked, !.action_calls = @ + 1],
                   raised |-> "",
                   result |-> [status |-> "allowed", action_executed |-> FALSE]]
    ELSE IF core = "deny"
    THEN [a |-> [a EXCEPT !.audit_log = log_core_deny(@, event_id, subject_id, action_type)],
          raised |-> "",
          result |-> [status |-> "denied", action_executed |-> FALSE]]
    ELSE [a |-> [a EXCEPT !.audit_log = log_core_timeout(@, event_id, subject_id,
                                                         action_type)],
          raised |-> "",
          result |-> [status |-> "timeout", action_executed |-> FALSE]]

(* lines 75-159: the request is logged, the KarmaSignal is built (and its   *)
(* fields validated), the signal is emitted and the response awaited       *)

(* variant: the action is run before the Core is asked *)
authorize_irreversible_action_eager(a, subject_id, action_type, context, severity, ttl, core, action_func) ==
    LET event_id == a.requests + 1
        a1 == [a EXCEPT !.requests = event_id,
                        !.audit_log = log_authorization_request(@, event_id, subject_id,
                                                                action_type),
                        !.action_calls = IF action_func = "none" THEN @ ELSE @ + 1]
    IN  IF ~validate_fields(subject_id, context, get_signal_for_action(action_type),
                            severity, ttl, "IRREVERSIBLE_ACTION")
        THEN [a |-> a1, raised |-> "ValueError", result |-> NoAuthResult]
        ELSE IF ~(emit_keywords \subseteq emit_parameters)
        THEN [a |-> a1, raised |-> "TypeError", result |-> NoAuthResult]
        ELSE await_core(a1, event_id, subject_id, action_type, core, action_func)

authorize_irreversible_action(a, subject_id, action_type, context, severity, ttl, core, action_func) ==
    LET event_id == a.requests + 1
        a1 == [a EXCEPT !.requests = event_id,
                        !.audit_log = log_authorization_request(@, event_id, subject_id,
                                                                action_type)]
    IN  IF ~validate_fields(subject_id, context, get_signal_for_action(action_type),
                            severity, ttl, "IRREVERSIBLE_ACTION")
        THEN [a |-> a1, raised |-> "ValueError", result |-> NoAuthResult]
        ELSE IF ~(emit_keywords \subseteq emit_parameters)
        THEN [a |-> a1, raised |-> "TypeError", result |-> NoAuthResult]
        ELSE await_core(a1, event_id, subject_id, action_type, core, action_func)

----------------------------------------------------------------------------
(* Inputs *)

SignalIds == {1, 2}
BaseMessage(id) == [f \in {"signal_id", "subject_id"} |-> IF f = "signal_id" THEN id ELSE 1]

(* messages a caller submits at time t: without a timestamp, or with a     *)
(* pre-supplied one that is one second older than the ttl                  *)
Messages(t) ==
    {BaseMessage(id) : id \in SignalIds}
    \cup {Put(BaseMessage(id), "timestamp", t - age) :
              id \in SignalIds, age \in {default_ttl_seconds + 1}}

Handles == {BucketId(n) : n \in 1..2}

IdleCallers == [c \in Callers |-> "idle"]
NoLocals ==
    [c \in Callers |->
        [signal_data |-> EmptyMap, secured_signal |-> EmptyMap, errors |-> <<>>,
         event_type |-> "", details |-> <<>>, audit_entry |-> EmptyMap,
         return_to |-> "", counter |-> 0, ret |-> NoResult]]

AcceptedRecord(signal_data, t, ret) ==
    [data |-> signal_data, at |-> t, bucket_id |-> ret.bucket_id, signal |-> ret.result]

OpRecord(op, signal_data, ret) ==
    [op |-> op, signal_data |-> signal_data, success |-> ret.success,
     found |-> ret.found, bucket_id |-> ret.bucket_id, errors |-> ret.errors,
     result |-> ret.result, raised |-> ret.raised]

----------------------------------------------------------------------------
(* State machine, calls run one at a time *)

InitCap(cap) ==
    /\ now = 0
    /\ frac = 0
    /\ nonce_ctr = 0
    /\ nonce_store = EmptyMap
    /\ replay_cache = EmptyMap
    /\ audit_log = <<genesis_entry(0)>>
    /\ last_audit_hash = GenesisHash
    /\ bucket_store = EmptyMap
    /\ bucket_counter = 0
    /\ lastOp = OpRecord("init", EmptyMap, NoResult)
    /\ retrieved = {}
    /\ accepted = {}
    /\ issued = EmptyMap
    /\ pc = IdleCallers
    /\ loc = NoLocals
    /\ retention = cap
    /\ appended = 0
    /\ auth = AuthInit

Init == InitCap(audit_retention)

(* the instant of the clock, in ticks *)
Instant == now * TicksPerSecond + frac

(* the nonces 1..ctr, those not yet recorded being issued at this instant *)
IssuedUpTo(ctr) == [n \in 1..ctr |-> IF n \in DOMAIN issued THEN issued[n] ELSE Instant]

SetManager(s) ==
    /\ nonce_ctr' = s.nonce_ctr
    /\ issued' = IssuedUpTo(s.nonce_ctr)
    /\ nonce_store' = s.nonce_store
    /\ replay_cache' = s.replay_cache
    /\ audit_log' = s.audit_log
    /\ last_audit_hash' = s.last_audit_hash
    /\ appended' = s.appended

SetBucket(b) ==
    /\ bucket_store' = b.bucket_store
    /\ bucket_counter' = b.bucket_counter

Tick ==
    /\ \E t \in TimePoints : t > now /\ now' = t
    /\ lastOp' = OpRecord("tick", EmptyMap, NoResult)
    /\ UNCHANGED <<retention, auth, frac, nonce_ctr, issued, nonce_store, replay_cache, audit_log, appended, last_audit_hash,
                   bucket_store, bucket_counter, retrieved, accepted, pc, loc>>

SendToBucket ==
    /\ appended + 1 < MaxAuditLen
    /\ \E signal_data \in Messages(now) :
          LET r == send_to_bucket(SM, BC, now, signal_data)
          IN  /\ SetManager(r.s)
              /\ SetBucket(r.b)
              /\ lastOp' = OpRecord("send", signal_data, r.ret)
              /\ accepted' = IF r.ret.success
                             THEN accepted \cup {AcceptedRecord(signal_data, now, r.ret)}
                             ELSE accepted
    /\ UNCHANGED <<retention, auth, now, frac, retrieved, pc, loc>>

ReceiveFromBucket ==
    /\ appended + 1 < MaxAuditLen
    /\ \E bucket_id \in Handles :
          LET r == receive_from_bucket(SM, BC, now, bucket_id)
          IN  /\ SetManager(r.s)
              /\ SetBucket(r.b)
              /\ lastOp' = OpRecord("recv", EmptyMap, r.ret)
              /\ retrieved' = IF bucket_id \in DOMAIN bucket_store
                              THEN retrieved \cup {bucket_id} ELSE retrieved
    /\ UNCHANGED <<retention, auth, now, frac, accepted, pc, loc>>

Next == Tick \/ SendToBucket \/ ReceiveFromBucket

Spec == Init /\ [][Next]_vars

----------------------------------------------------------------------------
(* State machine, send_to_bucket run by several callers at once.  No lock  *)
(* is taken anywhere in the module, so a caller can be preempted between   *)
(* any two accesses of the shared fields; each step below is one such      *)
(* access with the local computation around it.                            *)

CallLog(c, l, event_type, details, return_to) ==
    /\ loc' = [loc EXCEPT ![c] = [l EXCEPT !.event_type = event_type,
                                           !.details = details,
                                           !.return_to = return_to]]
    /\ pc' = [pc EXCEPT ![c] = "log_entry"]

(* lines 339, 179-202: secure the signal, up to the call of log_security_event *)
ConcCreate(c) ==
    /\ pc[c] = "idle"
    /\ nonce_ctr < MaxConcSends
    /\ \E id \in SignalIds :
          LET signal_data == BaseMessage(id)
              g == generate_secure_nonce(SM, now)
              m1 == Put(signal_data, "nonce", g.nonce)
              m2 == IF "timestamp" \notin DOMAIN m1 THEN Put(m1, "timestamp", now) ELSE m1
              m3 == Put(m2, "ttl", default_ttl_seconds)
              m4 == Put(m3, "security_version", security_version)
              m5 == Put(m4, "signature", sign_message(m4))
          IN  /\ nonce_ctr' = g.s.nonce_ctr
              /\ issued' = IssuedUpTo(g.s.nonce_ctr)
              /\ nonce_store' = g.s.nonce_store
              /\ CallLog(c, [NoLocals[c] EXCEPT !.signal_data = signal_data,
                                                !.secured_signal = m5],
                         "signal_created",
                         <<Get(m5, "signal_id"), Get(m5, "subject_id"), m5["nonce"] % 8>>,
                         "validate")
    /\ UNCHANGED <<retention, auth, now, frac, replay_cache, audit_log, appended, last_audit_hash, bucket_store,
                   bucket_counter, lastOp, retrieved, accepted>>

(* lines 255-269: build the entry from the last hash read *)
ConcLogEntry(c) ==
    /\ pc[c] = "log_entry"
    /\ loc' = [loc EXCEPT ![c].audit_entry =
                   new_audit_entry(last_audit_hash, now, loc[c].event_type, loc[c].details)]
    /\ pc' = [pc EXCEPT ![c] = "log_link"]
    /\ UNCHANGED <<retention, auth, now, frac, nonce_ctr, issued, nonce_store, replay_cache, audit_log, appended, last_audit_hash,
                   bucket_store, bucket_counter, lastOp, retrieved, accepted>>

(* line 272 *)
ConcLogLink(c) ==
    /\ pc[c] = "log_link"
    /\ last_audit_hash' = loc[c].audit_entry["entry_hash"]
    /\ pc' = [pc EXCEPT ![c] = "log_append"]
    /\ UNCHANGED <<retention, auth, now, frac, nonce_ctr, issued, nonce_store, replay_cache, audit_log, appended,
                   bucket_store, bucket_counter, lastOp, retrieved, accepted, loc>>

(* lines 275-282 *)
ConcLogAppend(c) ==
    /\ pc[c] = "log_append"
    /\ audit_log' = append_and_trim(audit_log, loc[c].audit_entry, retention)
    /\ appended' = appended + 1
    /\ pc' = [pc EXCEPT ![c] = loc[c].return_to]
    /\ UNCHANGED <<retention, auth, now, frac, nonce_ctr, issued, nonce_store, replay_cache, last_audit_hash,
                   bucket_store, bucket_counter, lastOp, retrieved, accepted, loc>>

(* lines 219-229 with 123-152: nonce, TTL, purge and cache lookup *)
ConcValidateLookup(c) ==
    /\ pc[c] = "validate"
    /\ LET m == loc[c].secured_signal
           n == validate_nonce(SM, now, m["nonce"])
           e1 == IF n.ok THEN <<>> ELSE <<ErrNonce>>
           e2 == IF is_valid_ttl(now, m["timestamp"], m["ttl"]) THEN e1 ELSE Append(e1, ErrTTL)
           cache == purge_expired(replay_cache, now)
           hit == message_hash(m) \in DOMAIN cache
       IN  /\ nonce_store' = n.s.nonce_store
           /\ replay_cache' = cache
           /\ loc' = [loc EXCEPT ![c].errors = IF hit THEN Append(e2, ErrReplay) ELSE e2]
           /\ pc' = [pc EXCEPT ![c] = IF hit THEN "validate_sign" ELSE "replay_insert"]
    /\ UNCHANGED <<retention, auth, now, frac, nonce_ctr, issued, audit_log, appended, last_audit_hash, bucket_store,
                   bucket_counter, lastOp, retrieved, accepted>>

(* line 154 *)
ConcReplayInsert(c) ==
    /\ pc[c] = "replay_insert"
    /\ replay_cache' = Put(replay_cache, message_hash(loc[c].secured_signal),
                           <<now, Get(loc[c].secured_signal, "signal_id")>>)
    /\ pc' = [pc EXCEPT ![c] = "validate_sign"]
    /\ UNCHANGED <<retention, auth, now, frac, nonce_ctr, issued, nonce_store, audit_log, appended, last_audit_hash, bucket_store,
                   bucket_counter, lastOp, retrieved, accepted, loc>>

(* lines 231-248: signature check, then the call of log_security_event *)
ConcValidateSign(c) ==
    /\ pc[c] = "validate_sign"
    /\ LET m == loc[c].secured_signal
           e3 == loc[c].errors
           e4 == IF m["signature"] # <<>>
                 THEN (IF verify_signature(Remove(m, {"signature"}), m["signature"]) THEN e3
                       ELSE Append(e3, ErrSignature))
                 ELSE Append(e3, ErrMissingSignature)
       IN  CallLog(c, [loc[c] EXCEPT !.errors = e4], "signal_validated",
                   <<Get(m, "signal_id"), IF Len(e4) = 0 THEN 1 ELSE 0, Len(e4)>>
                      \o ErrCodes(FirstThree(e4)),
                   "branch")
    /\ UNCHANGED <<retention, auth, now, frac, nonce_ctr, issued, nonce_store, replay_cache, audit_log, appended, last_audit_hash,
                   bucket_store, bucket_counter, lastOp, retrieved, accepted>>

(* lines 344-354 on rejection; line 357, the read of bucket_counter, otherwise *)
ConcBranch(c) ==
    /\ pc[c] = "branch"
    /\ IF Len(loc[c].errors) > 0
       THEN CallLog(c, [loc[c] EXCEPT !.ret = [NoResult EXCEPT !.errors = loc[c].errors]],
                    "bucket_send_failed",
                    <<Get(loc[c].signal_data, "signal_id")>> \o ErrCodes(loc[c].errors),
                    "return")
       ELSE /\ loc' = [loc EXCEPT ![c].counter = bucket_counter + 1]
            /\ pc' = [pc EXCEPT ![c] = "counter_store"]
    /\ UNCHANGED <<retention, auth, now, frac, nonce_ctr, issued, nonce_store, replay_cache, audit_log, appended, last_audit_hash,
                   bucket_store, bucket_counter, lastOp, retrieved, accepted>>

(* line 357, the write of bucket_counter *)
ConcCounterStore(c) ==
    /\ pc[c] = "counter_store"
    /\ bucket_counter' = loc[c].counter
    /\ pc' = [pc EXCEPT ![c] = "bucket_write"]
    /\ UNCHANGED <<retention, auth, now, frac, nonce_ctr, issued, nonce_store, replay_cache, audit_log, appended, last_audit_hash,
                   bucket_store, lastOp, retrieved, accepted, loc>>

(* lines 358-366: the handle from the counter as it is now, the store write *)
ConcBucketWrite(c) ==
    /\ pc[c] = "bucket_write"
    /\ LET bucket_id == BucketId(bucket_counter)
       IN  /\ bucket_store' = Put(bucket_store, bucket_id, loc[c].secured_signal)
           /\ CallLog(c, [loc[c] EXCEPT !.ret = [NoResult EXCEPT
                                                    !.success = TRUE,
                                                    !.bucket_id = bucket_id,
                                                    !.result = loc[c].secured_signal]],
                      "bucket_send_success",
                      <<bucket_id[2], Get(loc[c].signal_data, "signal_id"),
                        Get(loc[c].signal_data, "subject_id")>>,
                      "return")
    /\ UNCHANGED <<retention, auth, now, frac, nonce_ctr, issued, nonce_store, replay_cache, audit_log, appended, last_audit_hash,
                   bucket_counter, lastOp, retrieved, accepted>>

(* lines 350-354, 368-373 *)
ConcReturn(c) ==
    /\ pc[c] = "return"
    /\ lastOp' = OpRecord("send", loc[c].signal_data, loc[c].ret)
    /\ accepted' = IF loc[c].ret.success
                   THEN accepted \cup {AcceptedRecord(loc[c].signal_data, now, loc[c].ret)}
                   ELSE accepted
    /\ pc' = [pc EXCEPT ![c] = "idle"]
    /\ loc' = [loc EXCEPT ![c] = NoLocals[c]]
    /\ UNCHANGED <<retention, auth, now, frac, nonce_ctr, issued, nonce_store, replay_cache, audit_log, appended, last_audit_hash,
                   bucket_store, bucket_counter, retrieved>>

NextConc ==
    \E c \in Callers :
          \/ ConcCreate(c)
          \/ ConcLogEntry(c)
          \/ ConcLogLink(c)
          \/ ConcLogAppend(c)
          \/ ConcValidateLookup(c)
          \/ ConcReplayInsert(c)
          \/ ConcValidateSign(c)
          \/ ConcBranch(c)
          \/ ConcCounterStore(c)
          \/ ConcBucketWrite(c)
          \/ ConcReturn(c)

SpecConc == Init /\ [][NextConc]_vars

TypeOK ==
    /\ now \in TimePoints
    /\ bucket_counter \in Nat
    /\ Len(audit_log) >= 1

----------------------------------------------------------------------------
(* State machine of the SecurityManager alone: a caller secures a message, *)
(* may alter the secured message by hand, and validates the message it     *)
(* holds.  lastOp.result is the message in hand; after create              *)
(* lastOp.signal_data is the input, after tamper the secured message as it *)
(* was signed.  Calls happen on whole seconds.                             *)

MaxMgrAuditLen == 3   \* a manager call starts only while the log is shorter
MgrTimes == {0, 301, 3601}
OldSignature == <<9>>
UnknownNonce == 99

RawMessages(t) ==
    LET B == BaseMessage(1)
    IN  {B, BaseMessage(2),
         Put(B, "signature", OldSignature),
         Put(B, "nonce", UnknownNonce),
         Put(B, "ttl", 1),
         Put(B, "timestamp", t - 2 * default_ttl_seconds),
         Put(Put(B, "timestamp", t - 2 * default_ttl_seconds), "signature", OldSignature)}

(* what a holder of the secured message m can turn it into *)
Tampers(m) ==
    {Put(m, "nonce", v) : v \in {UnknownNonce, NonceUnhashable}}
    \cup {Put(m, "timestamp", v) :
              v \in {TsNotString, TsUnparseable, TsNoOffset, m["timestamp"] - 1}}
    \cup {Put(m, "ttl", v) : v \in {TtlNotNumber, m["ttl"] + 1}}
    \cup {Put(m, "security_version", security_version + 1)}
    \cup {Put(m, "signal_id", 5)}
    \cup {Put(m, "signature", v) : v \in {<<>>, OldSignature, SigNotString}}
    \cup {Remove(m, {f}) : f \in {"nonce", "timestamp", "ttl", "signature",
                                  "security_version", "subject_id"}}
    \cup {Remove(m, {"nonce", "timestamp", "ttl", "signature", "security_version"})}

MgrCreate ==
    /\ Len(audit_log) < MaxMgrAuditLen
    /\ \E signal_data \in RawMessages(now) :
          LET r == create_secure_karma_signal(SM, now, signal_data, default_ttl_seconds)
          IN  /\ SetManager(r.s)
              /\ lastOp' = OpRecord("create", signal_data,
                                    [NoResult EXCEPT !.success = TRUE, !.result = r.signal])
    /\ UNCHANGED <<retention, auth, now, frac, bucket_store, bucket_counter, retrieved, accepted, pc, loc>>

MgrTamper ==
    /\ lastOp.op = "create"
    /\ \E m \in Tampers(lastOp.result) \ {lastOp.result} :
          lastOp' = OpRecord("tamper", lastOp.result, [NoResult EXCEPT !.result = m])
    /\ UNCHANGED <<retention, auth, now, frac, nonce_ctr, issued, nonce_store, replay_cache, audit_log, appended,
                   last_audit_hash, bucket_store, bucket_counter, retrieved, accepted,
                   pc, loc>>

MgrValidate ==
    /\ Len(audit_log) < MaxMgrAuditLen
    /\ lastOp.op \in {"create", "tamper", "validate", "hold"}
    /\ LET m == lastOp.result
           v == validate_secure_karma_signal(SM, now, m)
       IN  /\ SetManager(v.s)
           /\ lastOp' = OpRecord("validate", lastOp.signal_data,
                                 [NoResult EXCEPT !.success = v.valid, !.errors = v.errors,
                                                  !.raised = v.raised, !.result = m])
    /\ UNCHANGED <<retention, auth, now, frac, bucket_store, bucket_counter, retrieved, accepted, pc, loc>>

(* time passes while the caller holds the message *)
MgrTick ==
    /\ lastOp.op # "init"
    /\ \E t \in MgrTimes : t > now /\ now' = t
    /\ lastOp' = OpRecord("hold", lastOp.signal_data, [NoResult EXCEPT !.result = lastOp.result])
    /\ UNCHANGED <<retention, auth, frac, nonce_ctr, issued, nonce_store, replay_cache, audit_log, appended,
                   last_audit_hash, bucket_store, bucket_counter, retrieved, accepted,
                   pc, loc>>

NextManager == MgrCreate \/ MgrTamper \/ MgrValidate \/ MgrTick

SpecManager == Init /\ [][NextManager]_vars

----------------------------------------------------------------------------
(* State machine of the nonce registry.  The clock has ticks below the     *)
(* second; generate_secure_nonce and validate_nonce read int(time.time()), *)
(* which is now.  lastOp.found of a validate_nonce call tells that the     *)
(* call before it validated the same nonce successfully.                   *)

MaxNonces == 2        \* nonces issued
NonceInstants == {<<0, 0>>, <<0, 1>>, <<300, 0>>, <<300, 1>>, <<301, 0>>, <<601, 0>>}

NonceArg(nonce) == [f \in {"nonce"} |-> nonce]

NonceTick ==
    /\ \E i \in NonceInstants :
          /\ i[1] * TicksPerSecond + i[2] > Instant
          /\ now' = i[1]
          /\ frac' = i[2]
    /\ lastOp' = OpRecord("tick", EmptyMap, NoResult)
    /\ UNCHANGED <<retention, auth, nonce_ctr, issued, nonce_store, replay_cache, audit_log, appended,
                   last_audit_hash, bucket_store, bucket_counter, retrieved, accepted,
                   pc, loc>>

GenerateSecureNonce ==
    /\ nonce_ctr < MaxNonces
    /\ LET g == generate_secure_nonce(SM, now)
       IN  /\ SetManager(g.s)
           /\ lastOp' = OpRecord("generate_secure_nonce", NonceArg(g.nonce),
                                 [NoResult EXCEPT !.success = TRUE])
    /\ UNCHANGED <<retention, auth, now, frac, bucket_store, bucket_counter, retrieved, accepted, pc, loc>>

ValidateNonce ==
    /\ \E nonce \in 1..(MaxNonces + 1) :
          LET r == validate_nonce(SM, now, nonce)
          IN  /\ SetManager(r.s)
              /\ lastOp' = OpRecord("validate_nonce", NonceArg(nonce),
                                    [NoResult EXCEPT !.success = r.ok,
                                        !.found = /\ lastOp.op = "validate_nonce"
                                                  /\ lastOp.success
                                                  /\ lastOp.signal_data = NonceArg(nonce)])
    /\ UNCHANGED <<retention, auth, now, frac, bucket_store, bucket_counter, retrieved, accepted, pc, loc>>

NextNonce == NonceTick \/ GenerateSecureNonce \/ ValidateNonce

SpecNonce == Init /\ [][NextNonce]_vars

----------------------------------------------------------------------------
(* is_valid_ttl applied to timestamps around the boundary and to values    *)
(* that are no RFC3339 time.                                               *)

TtlNows == {0, 1, 300}
TtlAges == {-1, 0, 1, 299, 300, 301, 600}
TtlValues == {0, 1, 300, 600, TtlNotNumber}
Unparseable == {TsNotString, TsUnparseable, TsNoOffset}
TtlTimestamps(t) == {t - a : a \in TtlAges} \cup Unparseable

TtlArgs(timestamp, ttl_seconds) ==
    [f \in {"timestamp", "ttl"} |-> IF f = "timestamp" THEN timestamp ELSE ttl_seconds]

IsValidTtl ==
    /\ \E timestamp \in TtlTimestamps(now), ttl_seconds \in TtlValues :
          LET o == ttl_outcome(now, timestamp, ttl_seconds)
          IN  lastOp' = OpRecord("is_valid_ttl", TtlArgs(timestamp, ttl_seconds),
                            [NoResult EXCEPT
                                !.success = is_valid_ttl(now, timestamp, ttl_seconds),
                                !.raised = IF o \in {"true", "false"} THEN "" ELSE o])
    /\ UNCHANGED <<retention, auth, now, frac, nonce_ctr, issued, nonce_store, replay_cache, audit_log, appended,
                   last_audit_hash, bucket_store, bucket_counter, retrieved, accepted,
                   pc, loc>>

TtlTick ==
    /\ \E t \in TtlNows : t > now /\ now' = t
    /\ lastOp' = OpRecord("tick", EmptyMap, NoResult)
    /\ UNCHANGED <<retention, auth, frac, nonce_ctr, issued, nonce_store, replay_cache, audit_log, appended,
                   last_audit_hash, bucket_store, bucket_counter, retrieved, accepted,
                   pc, loc>>

NextTtl == IsValidTtl \/ TtlTick

SpecTtl == Init /\ [][NextTtl]_vars

----------------------------------------------------------------------------
(* State machine of the authorization layer: callers ask for irreversible  *)
(* actions, and the logger's functions are called directly.                *)
(* lastOp.signal_data holds the arguments, lastOp.result the returned      *)
(* dict, lastOp.raised the exception that left the call.                   *)

MaxAuthLog == 3       \* an authorization call starts only while the log is shorter

AuthSubjects == {"u1", ""}
AuthEventIds == {1}
AuthActionTypes == {"restriction", "death_event"}
AuthContexts == {"game", "behavior_test"}
AuthSeverities == {9}
AuthTtls == {300, 0}
CoreResponses == {"ack", "deny", "silent"}
ActionFuncs == {"none", "ok", "raises"}

AuthArgs(subject_id, action_type, context, severity, ttl, core, action_func) ==
    [subject_id |-> subject_id, action_type |-> action_type, context |-> context,
     severity |-> severity, ttl |-> ttl, core |-> core, action_func |-> action_func]

LogArgs(event_id, subject_id, action_type) ==
    [event_id |-> event_id, subject_id |-> subject_id, action_type |-> action_type]

AuthorizeIrreversibleAction ==
    /\ Len(auth.audit_log) < MaxAuthLog
    /\ \E subject_id \in AuthSubjects, action_type \in AuthActionTypes,
          context \in AuthContexts, severity \in AuthSeverities, ttl \in AuthTtls,
          core \in CoreResponses, action_func \in ActionFuncs :
          LET r == authorize_irreversible_action(auth, subject_id, action_type, context,
                                                 severity, ttl, core, action_func)
          IN  /\ auth' = r.a
              /\ lastOp' = OpRecord("authorize",
                                    AuthArgs(subject_id, action_type, context, severity,
                                             ttl, core, action_func),
                                    [NoResult EXCEPT !.result = r.result,
                                                     !.raised = r.raised])
    /\ UNCHANGED <<now, frac, nonce_ctr, issued, nonce_store, replay_cache, audit_log,
                   appended, last_audit_hash, bucket_store, bucket_counter, retrieved,
                   accepted, pc, loc, retention>>

LogCall(op, args, log) ==
    /\ auth' = [auth EXCEPT !.audit_log = log]
    /\ lastOp' = OpRecord(op, args, NoResult)
    /\ UNCHANGED <<now, frac, nonce_ctr, issued, nonce_store, replay_cache, audit_log,
                   appended, last_audit_hash, bucket_store, bucket_counter, retrieved,
                   accepted, pc, loc, retention>>

LogCoreAck ==
    /\ Len(auth.audit_log) < MaxAuthLog
    /\ \E e \in AuthEventIds, s \in AuthSubjects, a \in AuthActionTypes :
          LogCall("log_core_ack", LogArgs(e, s, a), log_core_ack(auth.audit_log, e, s, a))

LogCoreDeny ==
    /\ Len(auth.audit_log) < MaxAuthLog
    /\ \E e \in AuthEventIds, s \in AuthSubjects, a \in AuthActionTypes :
          LogCall("log_core_deny", LogArgs(e, s, a), log_core_deny(auth.audit_log, e, s, a))

LogCoreTimeout ==
    /\ Len(auth.audit_log) < MaxAuthLog
    /\ \E e \in AuthEventIds, s \in AuthSubjects, a \in AuthActionTypes :
          LogCall("log_core_timeout", LogArgs(e, s, a),
                  log_core_timeout(auth.audit_log, e, s, a))

NextAuth == AuthorizeIrreversibleAction \/ LogCoreAck \/ LogCoreDeny \/ LogCoreTimeout

SpecAuth == Init /\ [][NextAuth]_vars

----------------------------------------------------------------------------
(* State machine of the gateway with a small retention cap.  The cap is    *)
(* the attribute audit_retention of the manager; here the manager starts   *)
(* with the attribute holding MaxRetention instead of 1000, so that the    *)
(* trim of lines 278-280 is reached after a few calls.  The audit trail is *)
(* read between the calls.                                                 *)

MaxRetention == 4     \* the retention cap of the manager
TrailLimits == 0..(MaxRetention + 1)

TrailArgs(limit) == [f \in {"limit"} |-> limit]

InitRetention == InitCap(MaxRetention)

GetAuditTrail ==
    /\ \E limit \in TrailLimits :
          lastOp' = OpRecord("get_audit_trail", TrailArgs(limit),
                             [NoResult EXCEPT !.result = get_audit_trail(audit_log, limit)])
    /\ UNCHANGED <<now, frac, nonce_ctr, issued, nonce_store, replay_cache, audit_log,
                   appended, last_audit_hash, bucket_store, bucket_counter, retrieved,
                   accepted, pc, loc, retention, auth>>

SpecRetention == InitRetention /\ [][Next]_vars

----------------------------------------------------------------------------
(* State machine of the audit chain alone: events are logged directly and  *)
(* the trail is read.  lastOp.result is the list get_audit_trail returned. *)

MaxTrailAppends == 4  \* entries logged
TrailEvents == {"signal_created", "bucket_not_found"}

LogSecurityEvent ==
    /\ appended < MaxTrailAppends
    /\ \E event_type \in TrailEvents :
          /\ SetManager(log_security_event(SM, now, event_type, <<1>>))
          /\ lastOp' = OpRecord("log_security_event", EmptyMap,
                                [NoResult EXCEPT !.success = TRUE])
    /\ UNCHANGED <<now, frac, bucket_store, bucket_counter, retrieved, accepted, pc, loc,
                   retention, auth>>

NextTrail == LogSecurityEvent \/ GetAuditTrail

SpecTrail == InitRetention /\ [][NextTrail]_vars

----------------------------------------------------------------------------
(* State machine of the replay cache alone: detect_replay_attack is called *)
(* on messages that share or do not share their opaque fields, while time  *)
(* passes.  lastOp.signal_data is the message of the call, lastOp.success  *)
(* the value returned, lastOp.found whether the cache held the fingerprint *)
(* when the call began, lastOp.result the message of the call before it    *)
(* when no time has passed in between.                                     *)

ReplayTimes == {0, 5, 3601, 3605, 3606}

ReplayBase ==
    [f \in {"signal_id", "subject_id", "ttl", "security_version", "nonce", "timestamp",
            "signature"} |->
        IF f = "signature" THEN <<1>>
        ELSE IF f = "ttl" THEN default_ttl_seconds
        ELSE IF f = "security_version" THEN security_version
        ELSE IF f = "timestamp" THEN 0
        ELSE 1]

(* the same opaque fields in a fresh security wrapper *)
Rewrapped(m) == Put(Put(Put(m, "nonce", 2), "timestamp", 5), "signature", <<2>>)

ReplayMessages ==
    {ReplayBase, Rewrapped(ReplayBase),
     Put(ReplayBase, "ttl", default_ttl_seconds + 1),
     Put(ReplayBase, "signal_id", 2),
     Remove(ReplayBase, {"signal_id"}), Rewrapped(Remove(ReplayBase, {"signal_id"}))}

DetectReplayAttack ==
    /\ \E message \in ReplayMessages :
          LET r == detect_replay_attack(SM, now, message)
          IN  /\ SetManager(r.s)
              /\ lastOp' = OpRecord("detect_replay_attack", message,
                                    [NoResult EXCEPT
                                        !.success = r.replay,
                                        !.found = message_hash(message)
                                                      \in DOMAIN replay_cache,
                                        !.result = IF lastOp.op = "detect_replay_attack"
                                                   THEN lastOp.signal_data ELSE EmptyMap])
    /\ UNCHANGED <<now, frac, bucket_store, bucket_counter, retrieved, accepted, pc, loc,
                   retention, auth>>

ReplayTick ==
    /\ \E t \in ReplayTimes : t > now /\ now' = t
    /\ lastOp' = OpRecord("tick", EmptyMap, NoResult)
    /\ UNCHANGED <<frac, nonce_ctr, issued, nonce_store, replay_cache, audit_log, appended,
                   last_audit_hash, bucket_store, bucket_counter, retrieved, accepted,
                   pc, loc, retention, auth>>

NextReplay == DetectReplayAttack \/ ReplayTick

SpecReplay == Init /\ [][NextReplay]_vars

----------------------------------------------------------------------------
(* Properties *)

InSeq(x, q) == \E i \in 1..Len(q) : q[i] = x
OpaqueFields(m) == Remove(m, {"timestamp"})

(* C1: a receive_from_bucket(h) that directly follows the accepted         *)
(* send_to_bucket returning h, at the same instant, returns the stored     *)
(* secured message.                                                        *)
C1_RoundTrip ==
    [][(/\ lastOp.op = "send" /\ lastOp.success
        /\ lastOp'.op = "recv" /\ lastOp'.bucket_id = lastOp.bucket_id
        /\ now' = now)
       => (lastOp'.found /\ lastOp'.result = lastOp.result)]_vars

(* C2: a send_to_bucket with the opaque fields of a submission accepted at *)
(* most replay_window seconds earlier is rejected with the replay error,   *)
(* stores nothing and leaves the handle counter alone.                     *)
C2_ResubmissionRejected ==
    [][(/\ lastOp'.op = "send"
        /\ \E a \in accepted :
              /\ OpaqueFields(a.data) = OpaqueFields(lastOp'.signal_data)
              /\ now' - a.at <= replay_window)
       => (/\ ~lastOp'.success
           /\ InSeq(ErrReplay, lastOp'.errors)
           /\ bucket_store' = bucket_store
           /\ bucket_counter' = bucket_counter)]_vars

C2_Witness ==
    /\ lastOp.op = "send" /\ ~lastOp.success
    /\ \E a \in accepted :
          /\ OpaqueFields(a.data) = OpaqueFields(lastOp.signal_data)
          /\ now - a.at = replay_window

(* C3: verify_audit_chain() is true after any number of appends below the  *)
(* retention cap.                                                          *)
C3_ChainVerifies ==
    Len(audit_log) < audit_retention => verify_audit_chain(audit_log)

(* C4: changing the details of any one stored entry, everything else left  *)
(* as it was, makes verify_audit_chain() false.                            *)
TamperDetails == {<<0>>, <<9>>}
Tampered(log, i, d) == [log EXCEPT ![i] = Put(@, "details", d)]

C4_TamperDetected ==
    \A i \in 1..Len(audit_log) : \A d \in TamperDetails :
        d # audit_log[i]["details"] => ~verify_audit_chain(Tampered(audit_log, i, d))

(* C4 as amended: the same, for a log that holds at least one entry after  *)
(* the genesis entry.                                                      *)
C4_TamperDetectedBeyondGenesis ==
    Len(audit_log) >= 2 => C4_TamperDetected

C4_Witness ==
    /\ Len(audit_log) >= 3
    /\ ~verify_audit_chain(Tampered(audit_log, 1, <<9>>))
    /\ ~verify_audit_chain(Tampered(audit_log, Len(audit_log), <<9>>))

(* C5: with callers interleaved, every entry after the first carries the   *)
(* entry_hash of the entry stored right before it as previous_hash, no two *)
(* entries carry the same previous_hash, and when no call is running       *)
(* last_audit_hash is the entry_hash of the last entry.                    *)
C5_ChainLinear ==
    /\ \A i \in 2..Len(audit_log) :
          /\ "previous_hash" \in DOMAIN audit_log[i]
          /\ audit_log[i]["previous_hash"] = audit_log[i - 1]["entry_hash"]
    /\ \A i, j \in 2..Len(audit_log) :
          i # j => audit_log[i]["previous_hash"] # audit_log[j]["previous_hash"]
    /\ (\A c \in Callers : pc[c] = "idle")
          => last_audit_hash = audit_log[Len(audit_log)]["entry_hash"]

(* C8: once the interleaved calls have returned, accepted submissions hold *)
(* different handles and each one's secured message is in the store under  *)
(* its handle.                                                             *)
C8_NoStoreCollision ==
    (\A c \in Callers : pc[c] = "idle")
    => /\ \A a1, a2 \in accepted : a1 # a2 => a1.bucket_id # a2.bucket_id
       /\ \A a \in accepted :
             /\ a.bucket_id \in DOMAIN bucket_store
             /\ bucket_store[a.bucket_id] = a.signal

(* C6: a receive_from_bucket(h) on a handle that an earlier call already   *)
(* validated returns None.                                                 *)
C6_LaterRetrievalFails ==
    [][(lastOp'.op = "recv" /\ lastOp'.bucket_id \in retrieved)
       => (/\ ~lastOp'.found
           /\ \A a \in accepted :
                 (a.bucket_id = lastOp'.bucket_id /\ now' - a.at <= replay_window)
                    => InSeq(ErrReplay, lastOp'.errors))]_vars

(* C6 as stated: ... and every such call is flagged as a replay.           *)
C6_LaterRetrievalIsReplay ==
    [][(lastOp'.op = "recv" /\ lastOp'.bucket_id \in retrieved)
       => (~lastOp'.found /\ InSeq(ErrReplay, lastOp'.errors))]_vars

C6_Witness ==
    /\ lastOp.op = "recv" /\ ~lastOp.found
    /\ lastOp.bucket_id \in retrieved
    /\ Len(SelectSeq(audit_log, LAMBDA e :
              e["event_type"] = "bucket_receive_violation"
              /\ e["details"][1] = lastOp.bucket_id[2])) >= 2

(* C7: an accepted send_to_bucket increments the counter by one, stores    *)
(* the secured message under the new handle bucket_<counter>, which is     *)
(* larger than every handle handed out before; the counter always equals   *)
(* the number of store entries.                                            *)
C7_FreshIncreasingHandles ==
    [][/\ bucket_counter' = Cardinality(DOMAIN bucket_store')
       /\ (lastOp'.op = "send" /\ lastOp'.success)
          => (/\ bucket_counter' = bucket_counter + 1
              /\ lastOp'.bucket_id = BucketId(bucket_counter')
              /\ lastOp'.bucket_id \notin DOMAIN bucket_store
              /\ \A h \in DOMAIN bucket_store : h[2] < lastOp'.bucket_id[2]
              /\ bucket_store' = Put(bucket_store, lastOp'.bucket_id, lastOp'.result))]_vars

C7_Witness ==
    /\ lastOp.op = "send" /\ lastOp.success
    /\ lastOp.bucket_id = BucketId(2)
    /\ DOMAIN bucket_store = {BucketId(1), BucketId(2)}

(* C9: a send_to_bucket that returns success=false leaves the store and    *)
(* the handle counter as they were.                                        *)
C9_RejectedStoresNothing ==
    [][(lastOp'.op = "send" /\ ~lastOp'.success)
       => (bucket_store' = bucket_store /\ bucket_counter' = bucket_counter)]_vars

C9_Witness ==
    /\ lastOp.op = "send" /\ ~lastOp.success
    /\ InSeq(ErrTTL, lastOp.errors)
    /\ bucket_counter >= 1

(* C10: receive_from_bucket leaves the store and the handle counter as     *)
(* they were, whatever it returns.                                         *)
C10_RetrievalNeverDeletes ==
    [][lastOp'.op = "recv"
       => (bucket_store' = bucket_store /\ bucket_counter' = bucket_counter)]_vars

C10_Witness ==
    /\ lastOp.op = "recv" /\ ~lastOp.found
    /\ lastOp.bucket_id \in DOMAIN bucket_store

----------------------------------------------------------------------------
(* Properties of the SecurityManager, stated on steps of SpecManager.  In  *)
(* a validate step lastOp.result is the message validated and the unprimed *)
(* manager fields are the state the call starts in.                        *)

AllRequired == {required_fields[i] : i \in 1..Len(required_fields)}
FourFields == {"nonce", "timestamp", "ttl", "signature"}
ValidateStep == lastOp'.op = "validate"
(* validate called on what create returned, unmodified and without delay *)
ValidateOfCreated == lastOp.op = "create" /\ ValidateStep
(* validate called on a secured message right after a field was altered *)
ValidateOfTampered == lastOp.op = "tamper" /\ ValidateStep

(* C11: whatever fields the input of create_secure_karma_signal carries,   *)
(* validate_secure_karma_signal on the unmodified output reports no        *)
(* 'Invalid signature' error.                                              *)
C11_CreatedSignatureVerifies ==
    [][ValidateOfCreated => ~InSeq(ErrSignature, lastOp'.errors)]_vars

(* C12: verify_signature(m, sign_message(m)) is true and                   *)
(* verify_signature(m2, sign_message(m)) is false for every m2 # m; and a  *)
(* secured message with the value of a non-signature field changed after   *)
(* signing makes validate_secure_karma_signal report 'Invalid signature'.  *)
C12_TamperEvidence ==
    [][ValidateOfTampered =>
          LET m == Remove(lastOp.signal_data, {"signature"})
              m2 == Remove(lastOp.result, {"signature"})
          IN  /\ verify_signature(m, sign_message(m))
              /\ m2 # m => ~verify_signature(m2, sign_message(m))
              /\ (DOMAIN lastOp.result = DOMAIN lastOp.signal_data /\ m2 # m)
                     => InSeq(ErrSignature, lastOp'.errors)]_vars

(* C15: the output of create_secure_karma_signal for a payload not seen    *)
(* before whose pre-supplied timestamp is older than the ttl validates to  *)
(* valid=false with the TTL error and neither the nonce nor the signature  *)
(* error.                                                                  *)
C15_ExpiredFailsOnTtlOnly ==
    [][(/\ ValidateOfCreated
        /\ "timestamp" \in DOMAIN lastOp.signal_data
        /\ now - lastOp.signal_data["timestamp"] > lastOp.result["ttl"]
        /\ message_hash(lastOp.result) \notin DOMAIN replay_cache)
       => /\ ~lastOp'.success
          /\ InSeq(ErrTTL, lastOp'.errors)
          /\ ~InSeq(ErrNonce, lastOp'.errors)
          /\ ~InSeq(ErrSignature, lastOp'.errors)]_vars

(* the errors the four checks give for m in the state the call starts in *)
ExpectedErrors(m) ==
    LET nonce_fails == \/ m["nonce"] \notin DOMAIN nonce_store
                       \/ now - nonce_store[m["nonce"]].timestamp > nonce_ttl
        ttl_fails == \/ m["timestamp"] \in Unparseable
                     \/ m["ttl"] = TtlNotNumber
                     \/ ~(0 <= now - m["timestamp"] /\ now - m["timestamp"] <= m["ttl"])
        replay_fails == \E h \in DOMAIN replay_cache :
                           /\ h = message_hash(m)
                           /\ now - replay_cache[h][1] <= replay_window
        signature_error == IF m["signature"] = <<>> THEN <<ErrMissingSignature>>
                           ELSE IF m["signature"] # sign_message(Remove(m, {"signature"}))
                           THEN <<ErrSignature>> ELSE <<>>
    IN  (IF nonce_fails THEN <<ErrNonce>> ELSE <<>>)
        \o (IF ttl_fails THEN <<ErrTTL>> ELSE <<>>)
        \o (IF replay_fails THEN <<ErrReplay>> ELSE <<>>)
        \o signature_error

(* C16: for a message with all required fields validate runs the nonce,    *)
(* TTL, replay and signature checks, all four in that order; errors holds  *)
(* exactly one error per failing check in that order, and valid is true    *)
(* iff errors is empty.                                                    *)
C16_AllChecksAccumulate ==
    [][(ValidateStep /\ AllRequired \subseteq DOMAIN lastOp.result)
       => /\ lastOp'.raised = ""
          /\ lastOp'.errors = ExpectedErrors(lastOp.result)
          /\ lastOp'.success <=> lastOp'.errors = <<>>
          /\ message_hash(lastOp.result) \in DOMAIN replay_cache']_vars

(* C17: a message that lacks nonce, timestamp, ttl or signature validates  *)
(* to valid=false with one field-missing error per missing field, and the  *)
(* call leaves the nonce registry and the replay cache as they were.       *)
C17_MissingFieldShortCircuit ==
    [][(ValidateStep /\ FourFields \ DOMAIN lastOp.result # {})
       => LET missing == AllRequired \ DOMAIN lastOp.result
          IN  /\ ~lastOp'.success
              /\ lastOp'.raised = ""
              /\ Len(lastOp'.errors) = Cardinality(missing)
              /\ \A f \in missing : InSeq("Missing required field: " \o f, lastOp'.errors)
              /\ nonce_store' = nonce_store
              /\ replay_cache' = replay_cache]_vars

(* a validate call has returned for a message without nonce whose replay   *)
(* fingerprint was not cached, so that a replay check would have shown     *)
C17_Witness ==
    /\ lastOp.op = "validate"
    /\ "nonce" \notin DOMAIN lastOp.result
    /\ "signature" \in DOMAIN lastOp.result
    /\ lastOp.errors = <<"Missing required field: nonce">>
    /\ message_hash(lastOp.result) \notin DOMAIN replay_cache

(* C18: every call of validate_secure_karma_signal, whatever its outcome,  *)
(* appends at least one entry to the audit log.                            *)
C18_EveryValidationAudited ==
    [][ValidateStep => Len(audit_log') > Len(audit_log)]_vars

(* C19: for a message with all required fields, whatever their values,     *)
(* validate_secure_karma_signal returns {valid, errors} and does not       *)
(* raise; a malformed value shows as an error string.                      *)
C19_ValidateNeverRaises ==
    (lastOp.op = "validate" /\ AllRequired \subseteq DOMAIN lastOp.result)
        => /\ lastOp.raised = ""
           /\ (\/ lastOp.result["timestamp"] \in Unparseable
               \/ lastOp.result["ttl"] = TtlNotNumber
               \/ lastOp.result["signature"] \in {<<>>, SigNotString}
               \/ lastOp.result["nonce"] \in {UnknownNonce, NonceUnhashable})
                  => lastOp.errors # <<>>

----------------------------------------------------------------------------
(* Properties of the nonce registry (SpecNonce) and of is_valid_ttl        *)
(* (SpecTtl)                                                               *)

(* C13: validate_nonce on an issued nonce returns true when called while   *)
(* the age of the nonce is at most nonce_ttl, and false on every call made *)
(* after its age exceeds nonce_ttl.                                        *)
C13_NonceFreshness ==
    (lastOp.op = "validate_nonce" /\ lastOp.signal_data["nonce"] \in DOMAIN issued)
        => (lastOp.success <=>
                Instant - issued[lastOp.signal_data["nonce"]] <= nonce_ttl * TicksPerSecond)

(* C14: for a parseable timestamp and an integer ttl, is_valid_ttl is true *)
(* iff 0 <= now - timestamp <= ttl.                                        *)
C14_TtlClosedInterval ==
    (/\ lastOp.op = "is_valid_ttl"
     /\ lastOp.signal_data["timestamp"] \notin Unparseable
     /\ lastOp.signal_data["ttl"] # TtlNotNumber)
        => /\ lastOp.raised = ""
           /\ lastOp.success <=>
                 /\ 0 <= now - lastOp.signal_data["timestamp"]
                 /\ now - lastOp.signal_data["timestamp"] <= lastOp.signal_data["ttl"]

(* is_valid_ttl has returned true for a timestamp exactly ttl = 300 s old *)
C14_Witness ==
    /\ lastOp.op = "is_valid_ttl"
    /\ lastOp.signal_data["ttl"] = default_ttl_seconds
    /\ now - lastOp.signal_data["timestamp"] = default_ttl_seconds
    /\ lastOp.success

(* C20: for a timestamp that is no RFC3339 time (malformed string, string  *)
(* without UTC offset, value that is not a string) is_valid_ttl returns    *)
(* false and does not raise.                                               *)
C20_TtlNeverRaises ==
    (lastOp.op = "is_valid_ttl" /\ lastOp.signal_data["timestamp"] \in Unparseable)
        => (lastOp.raised = "" /\ ~lastOp.success)

----------------------------------------------------------------------------
(* Properties of the authorization layer *)

OutcomeTypes == {"core_ack", "core_deny", "core_timeout"}

(* the call that made this step, if it was a call of op that changed auth *)
AuthStep(op) == lastOp'.op = op /\ auth' # auth

(* positions of the log that hold an entry of the given types for event e *)
EntriesOf(log, types, e) ==
    {i \in DOMAIN log : log[i].event_type \in types /\ log[i].event_id = e}

(* C21: Core gate, no ACK means no effect.  A call of                      *)
(* authorize_irreversible_action invokes action_func at most once, and     *)
(* only when the Core answered authorized=true and the core_ack entry of   *)
(* the call is in the log; a call answered by DENY, by nothing before the  *)
(* timeout, or left by an exception does not invoke action_func and its    *)
(* result, if any, has action_executed = false.                            *)
C21_NoAckNoEffect ==
    [][AuthStep("authorize") =>
          LET calls == auth'.action_calls - auth.action_calls
              args == lastOp'.signal_data
              acked == \E i \in DOMAIN auth'.audit_log :
                          /\ i > Len(auth.audit_log)
                          /\ auth'.audit_log[i].event_type = "core_ack"
                          /\ auth'.audit_log[i].event_id = auth'.requests
          IN  /\ calls \in {0, 1}
              /\ calls = 1 => (args.core = "ack" /\ lastOp'.raised = "" /\ acked)
              /\ (args.core # "ack" \/ lastOp'.raised # "") =>
                     (calls = 0 /\ ~lastOp'.result.action_executed)]_vars

(* an action_func was handed over, the call ended, and it was not invoked *)
C21_Witness ==
    /\ lastOp.op = "authorize"
    /\ lastOp.signal_data.action_func = "ok"
    /\ lastOp.raised # ""
    /\ ~lastOp.result.action_executed
    /\ auth.action_calls = 0
    /\ Len(auth.audit_log) > 0

(* C22: every authorization request reaches a logged outcome.  When a call *)
(* of authorize_irreversible_action that logged its authorization_request  *)
(* entry with event id e has ended, the log holds after that entry exactly *)
(* one core_ack, core_deny or core_timeout entry with event id e, and the  *)
(* call has returned a result with status allowed, denied or timeout.      *)
C22_EveryRequestHasOutcome ==
    lastOp.op = "authorize" =>
        LET e == auth.requests
            log == auth.audit_log
        IN  \A r \in EntriesOf(log, {"authorization_request"}, e) :
                /\ Cardinality({i \in EntriesOf(log, OutcomeTypes, e) : i > r}) = 1
                /\ lastOp.raised = ""
                /\ lastOp.result.status \in {"allowed", "denied", "timeout"}

(* C23: DENY and TIMEOUT are discarded with an audit record.  A call of    *)
(* log_core_deny (log_core_timeout) appends a core_deny (core_timeout)     *)
(* entry and right after it an audit_log entry with status discarded, both *)
(* with the event id, subject and action type of the call; a call of       *)
(* log_core_ack appends the core_ack entry alone.                          *)
C23_DenyTimeoutDiscarded ==
    [][LET old == auth.audit_log
           new == auth'.audit_log
           n == Len(old)
           args == lastOp'.signal_data
           Matches(entry, event_type, status) ==
               /\ entry.event_type = event_type
               /\ entry.status = status
               /\ entry.event_id = args.event_id
               /\ entry.subject_id = args.subject_id
               /\ entry.action_type = args.action_type
           Discarded(event_type, status) ==
               /\ Len(new) = n + 2
               /\ SubSeq(new, 1, n) = old
               /\ Matches(new[n + 1], event_type, status)
               /\ Matches(new[n + 2], "audit_log", "discarded")
       IN  /\ AuthStep("log_core_deny") => Discarded("core_deny", "denied")
           /\ AuthStep("log_core_timeout") => Discarded("core_timeout", "timeout")
           /\ AuthStep("log_core_ack") =>
                  /\ Len(new) = n + 1
                  /\ SubSeq(new, 1, n) = old
                  /\ Matches(new[n + 1], "core_ack", "authorized")]_vars

(* a DENY and a TIMEOUT have been logged, each with its discard record *)
C23_Witness ==
    /\ lastOp.op = "log_core_timeout"
    /\ Len(auth.audit_log) = 4
    /\ auth.audit_log[1].event_type = "core_deny"
    /\ auth.audit_log[2].event_type = "audit_log"
    /\ auth.audit_log[3].event_type = "core_timeout"
    /\ auth.audit_log[4].event_type = "audit_log"
    /\ auth.audit_log[4].status = "discarded"

----------------------------------------------------------------------------
(* Properties of the audit log under retention *)

IsPrefix(s, u) == Len(s) <= Len(u) /\ SubSeq(u, 1, Len(s)) = s

MinOf(a, b) == IF a < b THEN a ELSE b

(* C24: hash-link invariant.  In every state, after a trim as well, each   *)
(* entry but the first carries as previous_hash the stored entry_hash of   *)
(* the entry before it, and last_audit_hash is the entry_hash of the last  *)
(* entry.                                                                  *)
C24_HashLink ==
    /\ \A i \in 2..Len(audit_log) :
          /\ "previous_hash" \in DOMAIN audit_log[i]
          /\ audit_log[i]["previous_hash"] = audit_log[i - 1]["entry_hash"]
    /\ last_audit_hash = audit_log[Len(audit_log)]["entry_hash"]

(* the genesis entry has been trimmed away and several entries remain *)
C24_Witness ==
    /\ appended + 1 > Len(audit_log)
    /\ Len(audit_log) >= 3
    /\ audit_log[1]["event_id"] # GenesisEventId

(* C25: entry-hash invariant.  Every entry appended by log_security_event  *)
(* has as entry_hash the hash of its other fields (event_id, timestamp,    *)
(* event_type, details, previous_hash); the genesis entry alone carries    *)
(* the sentinel.                                                           *)
C25_EntryHash ==
    \A i \in DOMAIN audit_log :
        LET entry == audit_log[i]
        IN  IF entry["event_id"] = GenesisEventId
            THEN i = 1 /\ entry["entry_hash"] = GenesisHash
            ELSE /\ entry["entry_hash"] # GenesisHash
                 /\ DOMAIN entry = {"event_id", "timestamp", "event_type", "details",
                                    "previous_hash", "entry_hash"}
                 /\ entry["entry_hash"] =
                        Sha256(JsonDumps(Remove(entry, {"entry_hash"}), AuditKeys))

(* the genesis entry and two appended entries are in the log *)
C25_Witness ==
    /\ Len(audit_log) >= 3
    /\ audit_log[1]["event_id"] = GenesisEventId
    /\ audit_log[3]["event_type"] = "signal_validated"

(* C26 as stated: while the log holds at most audit_retention entries, a   *)
(* gateway operation only adds entries at the end.                         *)
C26_AppendOnlyAtMostCap ==
    [][Len(audit_log) <= retention => IsPrefix(audit_log, audit_log')]_vars

(* C26: the audit log is append-only until the cap is exceeded.  While the *)
(* entries ever put in the log, the genesis entry included, number at most *)
(* audit_retention, every gateway operation leaves the existing entries    *)
(* unchanged and in place and only adds entries at the end.                *)
C26_AppendOnlyUntilCapExceeded ==
    [][appended' + 1 <= retention => IsPrefix(audit_log, audit_log')]_vars

(* the log has been filled to the cap exactly, nothing trimmed *)
C26_Witness ==
    /\ appended + 1 = retention
    /\ Len(audit_log) = retention
    /\ lastOp.op \in {"send", "recv"}

(* C27: retention cap.  The log never holds more than audit_retention      *)
(* entries; a step that appends k entries leaves the most recent           *)
(* audit_retention entries of the old log followed by the new ones, in     *)
(* their order, the entry appended last being the last of the log.         *)
C27_RetentionCap ==
    [][LET n == Len(audit_log)
           m == Len(audit_log')
           k == appended' - appended
           dropped == n + k - m
       IN  /\ m = MinOf(n + k, retention)
           /\ \A j \in 1..m : j <= m - k => audit_log'[j] = audit_log[j + dropped]
           /\ k > 0 =>
                 /\ audit_log'[m]["entry_hash"] = last_audit_hash'
                 /\ \A i \in 1..n : audit_log[i] # audit_log'[m]]_vars

(* an append has exceeded the cap: the oldest entries are gone *)
C27_Witness ==
    /\ appended + 1 > retention
    /\ Len(audit_log) = retention
    /\ lastOp.op = "recv"

(* C28: get_audit_trail(limit), limit >= 0, returns the last               *)
(* min(limit, len(log)) entries of the log, oldest first.                  *)
C28_TrailLastLimit ==
    lastOp.op = "get_audit_trail" =>
        LET limit == lastOp.signal_data["limit"]
            m == MinOf(limit, Len(audit_log))
        IN  lastOp.result = SubSeq(audit_log, Len(audit_log) - m + 1, Len(audit_log))

----------------------------------------------------------------------------
(* Properties of the audit events of the store and of the replay cache *)

(* the event types of the entries a step has added to the log *)
AddedEvents ==
    [i \in 1..(Len(audit_log') - Len(audit_log)) |->
        audit_log'[Len(audit_log) + i]["event_type"]]

(* C29: audit events match the outcome of the call, in order.  An accepted *)
(* send_to_bucket appends signal_created, signal_validated,                *)
(* bucket_send_success, a rejected one signal_created, signal_validated,   *)
(* bucket_send_failed; receive_from_bucket appends bucket_not_found alone  *)
(* for an unknown handle and returns nothing, and for a known handle       *)
(* signal_validated followed by bucket_receive_success when the validation *)
(* passes and the message is returned, by bucket_receive_violation when it *)
(* fails and nothing is returned.                                          *)
C29_AuditEventsMatchOutcome ==
    [][/\ (lastOp'.op = "send" /\ appended' # appended) =>
              /\ IsPrefix(audit_log, audit_log')
              /\ AddedEvents =
                     IF lastOp'.success
                     THEN <<"signal_created", "signal_validated", "bucket_send_success">>
                     ELSE <<"signal_created", "signal_validated", "bucket_send_failed">>
       /\ (lastOp'.op = "recv" /\ appended' # appended) =>
              /\ IsPrefix(audit_log, audit_log')
              /\ IF lastOp'.bucket_id \notin DOMAIN bucket_store
                 THEN AddedEvents = <<"bucket_not_found">> /\ ~lastOp'.found
                 ELSE LET stored == bucket_store[lastOp'.bucket_id]
                          passes == validate_secure_karma_signal(SM, now, stored).valid
                      IN  /\ lastOp'.found = passes
                          /\ lastOp'.found => lastOp'.result = stored
                          /\ AddedEvents =
                                 IF passes
                                 THEN <<"signal_validated", "bucket_receive_success">>
                                 ELSE <<"signal_validated", "bucket_receive_violation">>]_vars

(* a retrieval of an unknown handle, then an accepted submission followed *)
(* by a retrieval of its handle                                            *)
C29_Witness ==
    /\ lastOp.op = "recv"
    /\ lastOp.bucket_id \in DOMAIN bucket_store
    /\ Len(audit_log) = 7
    /\ audit_log[2]["event_type"] = "bucket_not_found"
    /\ audit_log[5]["event_type"] = "bucket_send_success"
    /\ audit_log[6]["event_type"] = "signal_validated"
    /\ audit_log[7]["event_type"] = "bucket_receive_violation"

(* C30: a replay-cache entry is created only by a successful validation.   *)
(* After a validate_secure_karma_signal call that returned valid = false   *)
(* because of the nonce, TTL or signature check alone, the replay cache    *)
(* holds no entry for the fingerprint of the message.                      *)
C30_RejectedLeavesNoCacheEntry ==
    (/\ lastOp.op = "validate"
     /\ lastOp.raised = ""
     /\ ~lastOp.success
     /\ Len(lastOp.errors) > 0
     /\ \A i \in 1..Len(lastOp.errors) :
           lastOp.errors[i] \in {ErrNonce, ErrTTL, ErrSignature, ErrMissingSignature})
    => message_hash(lastOp.result) \notin DOMAIN replay_cache

----------------------------------------------------------------------------
(* Properties of the replay cache *)

ReplayStep == lastOp'.op = "detect_replay_attack"

(* the opaque fields of a message *)
NonVolatile(m) == Remove(m, {"timestamp", "nonce", "signature"})

(* the entry of key k is not older than the replay window *)
Unexpired(k) == now - replay_cache[k][1] <= replay_window

(* the fingerprint of m is in the cache once the expired entries are gone *)
CacheHit(m) == message_hash(m) \in DOMAIN replay_cache /\ Unexpired(message_hash(m))

(* C31 as stated: on a hit detect_replay_attack returns true and the cache *)
(* is the same after the call as before it.                                *)
C31_HitLeavesCacheUnchanged ==
    [][(ReplayStep /\ CacheHit(lastOp'.signal_data)) =>
          (lastOp'.success /\ replay_cache' = replay_cache)]_vars

(* C31: strict reject on cache hit.  Whenever the fingerprint is in the    *)
(* cache after the expiry purge, detect_replay_attack returns true,        *)
(* whatever the time since caching and whether or not the signal_id of the *)
(* message equals the cached one; on a hit the cache is unchanged apart    *)
(* from the expired entries the purge removed.                             *)
C31_StrictRejectOnHit ==
    [][(ReplayStep /\ CacheHit(lastOp'.signal_data)) =>
          /\ lastOp'.success
          /\ DOMAIN replay_cache' = {k \in DOMAIN replay_cache : Unexpired(k)}
          /\ \A k \in DOMAIN replay_cache' : replay_cache'[k] = replay_cache[k]]_vars

(* a hit less than 10 seconds after caching, for a message without         *)
(* signal_id, whose get() differs from the cached 'unknown'                *)
C31_Witness ==
    /\ lastOp.op = "detect_replay_attack"
    /\ lastOp.found
    /\ lastOp.success
    /\ "signal_id" \notin DOMAIN lastOp.signal_data
    /\ now - replay_cache[message_hash(lastOp.signal_data)][1] < 10
    /\ now - replay_cache[message_hash(lastOp.signal_data)][1] > 0

(* C32: the fingerprint ignores exactly the volatile fields.  For any two  *)
(* messages, detect_replay_attack on the second right after the first      *)
(* returns true when they agree on every field other than timestamp, nonce *)
(* and signature; when they differ in another field the first call does    *)
(* not change the verdict on the second, which is false unless its own     *)
(* fingerprint was cached before.                                          *)
C32_FingerprintIgnoresVolatile ==
    \A m1 \in ReplayMessages, m2 \in ReplayMessages :
        LET r1 == detect_replay_attack(SM, now, m1)
            r2 == detect_replay_attack(r1.s, now, m2)
        IN  IF NonVolatile(m1) = NonVolatile(m2)
            THEN r2.replay
            ELSE /\ r2.replay = detect_replay_attack(SM, now, m2).replay
                 /\ (\A k \in DOMAIN replay_cache : ~Unexpired(k)) => ~r2.replay

(* a message was flagged right after another one with the same opaque      *)
(* fields and another nonce, timestamp and signature                       *)
C32_Witness ==
    /\ lastOp.op = "detect_replay_attack"
    /\ lastOp.success
    /\ lastOp.result # EmptyMap
    /\ lastOp.result # lastOp.signal_data
    /\ NonVolatile(lastOp.result) = NonVolatile(lastOp.signal_data)
    /\ Cardinality(DOMAIN replay_cache) = 1

(* C33: replay window expiry.  A detect_replay_attack call removes every   *)
(* entry first seen more than replay_window before now and keeps the       *)
(* others as they are; a payload whose entry was older than replay_window  *)
(* is reported as no replay and cached again with first_seen = now.        *)
C33_WindowExpiry ==
    [][ReplayStep =>
          LET h == message_hash(lastOp'.signal_data)
          IN  /\ \A k \in DOMAIN replay_cache :
                    IF Unexpired(k)
                    THEN k \in DOMAIN replay_cache' /\ replay_cache'[k] = replay_cache[k]
                    ELSE k \in DOMAIN replay_cache' => k = h
              /\ (h \in DOMAIN replay_cache /\ ~Unexpired(h)) =>
                    /\ ~lastOp'.success
                    /\ h \in DOMAIN replay_cache'
                    /\ replay_cache'[h][1] = now]_vars

(* a payload cached more than replay_window ago was submitted again *)
C33_Witness ==
    /\ lastOp.op = "detect_replay_attack"
    /\ lastOp.found
    /\ ~lastOp.success
    /\ replay_cache[message_hash(lastOp.signal_data)][1] = now
    /\ now > replay_window

(* C40: a hit never refreshes the entry.  A call that finds the            *)
(* fingerprint in the cache leaves its first_seen time as it is, and the   *)
(* payload is reported as no replay exactly when it is not cached or more  *)
(* than replay_window has passed since that first_seen time.               *)
C40_HitNeverRefreshes ==
    [][ReplayStep =>
          LET h == message_hash(lastOp'.signal_data)
          IN  /\ (h \in DOMAIN replay_cache /\ Unexpired(h)) =>
                    /\ h \in DOMAIN replay_cache'
                    /\ replay_cache'[h][1] = replay_cache[h][1]
              /\ lastOp'.success = (h \in DOMAIN replay_cache /\ Unexpired(h))]_vars

(* a repeat was rejected replay_window after the first sighting exactly,   *)
(* and the entry still carries the time of the first sighting              *)
C40_Witness ==
    /\ lastOp.op = "detect_replay_attack"
    /\ lastOp.found
    /\ lastOp.success
    /\ now - replay_cache[message_hash(lastOp.signal_data)][1] = replay_window

----------------------------------------------------------------------------
(* Properties of nonce validation (SpecNonce) *)

NonceStep == lastOp'.op = "validate_nonce"

(* the age of an issued nonce, in ticks of the clock *)
NonceAge(n) == Instant - issued[n]

C35_ExpiryLookupTriggeredFinal ==
    [][LET n == lastOp'.signal_data["nonce"]
       IN  /\ (NonceStep /\ n \in DOMAIN nonce_store) =>
                 IF NonceAge(n) > nonce_ttl * TicksPerSecond
                 THEN ~lastOp'.success /\ nonce_store' = Remove(nonce_store, {n})
                 ELSE lastOp'.success /\ nonce_store' = nonce_store
           /\ (NonceStep /\ n \notin DOMAIN nonce_store) =>
                 ~lastOp'.success /\ nonce_store' = nonce_store
           /\ ~NonceStep => DOMAIN nonce_store \subseteq DOMAIN nonce_store']_vars

----------------------------------------------------------------------------
(* Properties of create_secure_karma_signal and of the nonce check of      *)
(* validate_secure_karma_signal (SpecManager)                              *)

CreateStep == lastOp'.op = "create"

(* C36: an unknown nonce is rejected.  validate_secure_karma_signal on a   *)
(* secured message whose nonce was never issued returns, is not valid and  *)
(* reports the nonce error, and the nonce registry is left unchanged.      *)
C36_UnknownNonceRejected ==
    [][(/\ ValidateStep
        /\ AllRequired \subseteq DOMAIN lastOp.result
        /\ lastOp.result["nonce"] \notin 1..nonce_ctr)
          => /\ lastOp'.raised = ""
             /\ ~lastOp'.success
             /\ InSeq(ErrNonce, lastOp'.errors)
             /\ nonce_store' = nonce_store]_vars

(* C37: create_secure_karma_signal keeps a timestamp the input carries and *)
(* sets timestamp = now only when the input has none; the nonce of the     *)
(* result is freshly issued and registered, whatever nonce the input       *)
(* carried, ttl is the ttl_seconds argument and security_version '2.0';    *)
(* the other fields are those of the input, which is not modified.         *)
C37_SecureKeepsTimestampOnly ==
    [][CreateStep =>
          LET input == lastOp'.signal_data
              out == lastOp'.result
          IN  /\ out["timestamp"] = IF "timestamp" \in DOMAIN input
                                    THEN input["timestamp"] ELSE now
              /\ out["nonce"] \notin DOMAIN nonce_store
              /\ out["nonce"] \in DOMAIN nonce_store'
              /\ nonce_store'[out["nonce"]].timestamp = now
              /\ out["ttl"] = default_ttl_seconds
              /\ out["security_version"] = security_version
              /\ \A f \in DOMAIN input \ AllRequired : out[f] = input[f]
              /\ input \in RawMessages(now)]_vars

(* a message secured with a pre-supplied timestamp, which is not now *)
C37_Witness ==
    /\ lastOp.op = "create"
    /\ "timestamp" \in DOMAIN lastOp.signal_data
    /\ lastOp.result["timestamp"] = lastOp.signal_data["timestamp"]
    /\ lastOp.result["timestamp"] # now

(* C38: create_secure_karma_signal does not validate.  It always returns a *)
(* secured message; it adds one record to the nonce registry and one       *)
(* signal_created entry to the audit log and leaves the replay cache, the  *)
(* store and the handle counter unchanged.                                 *)
C38_SecureFrame ==
    [][CreateStep =>
          /\ lastOp'.success
          /\ AllRequired \subseteq DOMAIN lastOp'.result
          /\ DOMAIN nonce_store' = DOMAIN nonce_store \cup {lastOp'.result["nonce"]}
          /\ Cardinality(DOMAIN nonce_store') = Cardinality(DOMAIN nonce_store) + 1
          /\ \A n \in DOMAIN nonce_store : nonce_store'[n] = nonce_store[n]
          /\ Len(audit_log') = Len(audit_log) + 1
          /\ IsPrefix(audit_log, audit_log')
          /\ audit_log'[Len(audit_log')]["event_type"] = "signal_created"
          /\ replay_cache' = replay_cache
          /\ bucket_store' = bucket_store
          /\ bucket_counter' = bucket_counter]_vars

(* a message whose validation would fail (stale timestamp, payload already *)
(* in the replay cache) was secured all the same                           *)
C38_Witness ==
    /\ lastOp.op = "create"
    /\ lastOp.success
    /\ now - lastOp.result["timestamp"] > lastOp.result["ttl"]
    /\ message_hash(lastOp.result) \in DOMAIN replay_cache

----------------------------------------------------------------------------
(* Properties of retrieval through the gateway (Spec) *)

====
